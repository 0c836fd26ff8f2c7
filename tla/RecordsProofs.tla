---------------------------- MODULE RecordsProofs ----------------------------
(***************************************************************************)
(* Proofs about what the program keeps: the directories of the indices      *)
(* (IndexStore), what a test scan writes to them (TestAdoption), the record *)
(* of a scan (Telemetry), the profile of the machine (Profile), the journal *)
(* of a benchmark (BenchmarkJournal) and the analysis of the journals       *)
(* (BenchmarkMining).                                                       *)
(***************************************************************************)
EXTENDS MCRecords, RecursionLemmas, SequenceTheorems, FunctionTheorems, FiniteSetTheorems, TLAPS

-----------------------------------------------------------------------------
(* IndexStore: what a scan has stored is not swept before its time.            *)

\* A directory as it is kept.
Directory == [meta : Roots \cup {NoRoot}, tmp : BOOLEAN, last : 0..day, touched : 0..day, rows : SUBSET Roots,
              wal : SUBSET Databases]

\* What is known of the last scan of a root.
Scanned == [dir : DirNames \cup {NoDir}, day : 0..day, fresh : BOOLEAN]

\* Where a resolver is: it has a root unless it is idle, and a directory once it has chosen one.
Steps == {"idle", "look", "choose", "meta", "rename", "resolved", "using"}

\* The types, with those of what a scan has stored.
StoreTypes ==
    /\ StoreTypeOK
    /\ day \in Nat
    /\ \A d \in DOMAIN dirs : dirs[d] \in Directory
    /\ stored \in [Roots -> Scanned]
    /\ \A a \in Resolvers : agent[a].pc # "idle" => agent[a].root \in Roots
    /\ \A a \in Resolvers : agent[a].pc \in {"meta", "rename", "resolved", "using"} => agent[a].dir \in DirNames

\* A directory in which a scan has stored something is no older than that, if the scan touched it:
\* so the sweep, which asks for an old directory, cannot take it while what is stored is young.
StoredIsTouched ==
    \A r \in Roots : LET d == stored[r].dir IN
        (d # NoDir /\ day - stored[r].day < StaleDays /\ stored[r].fresh) =>
            /\ d \in DOMAIN dirs /\ r \in dirs[d].rows
            /\ stored[r].day <= dirs[d].touched

\* The directory a scan works in is there, with what it stores: it is the scan's own thread that
\* sweeps.
InUse == agent["scan"].pc = "using" =>
            /\ agent["scan"].dir \in DOMAIN dirs
            /\ agent["scan"].root \in dirs[agent["scan"].dir].rows

StoreInv == StoreTypes /\ StoredIsTouched /\ InUse

\* No directory is there at first.
LEMMA StoreBegins == StoreInit => StoreInv
<1> SUFFICES ASSUME StoreInit PROVE StoreInv
  OBVIOUS
<1>1. DOMAIN dirs = {}
  BY DEF StoreInit
<1>2. stored \in [Roots -> Scanned]
  BY DEF StoreInit, Scanned
<1>3. agent \in [Resolvers -> [pc : Steps, root : Roots \cup {NoRoot}, dir : DirNames \cup {NoDir}]]
  BY DEF StoreInit, Idle, Steps
<1>4. \A a \in Resolvers : agent[a].pc = "idle"
  BY DEF StoreInit, Idle
<1> QED
  BY <1>1, <1>2, <1>3, <1>4
  DEF StoreInit, StoreInv, StoreTypes, StoreTypeOK, StoredIsTouched, InUse, Steps, Directory, Resolvers

\* The types of the agents, on their own.
AgentsTyped ==
    /\ agent \in [Resolvers -> [pc : Steps, root : Roots \cup {NoRoot}, dir : DirNames \cup {NoDir}]]
    /\ \A a \in Resolvers : agent[a].pc # "idle" => agent[a].root \in Roots
    /\ \A a \in Resolvers : agent[a].pc \in {"meta", "rename", "resolved", "using"} => agent[a].dir \in DirNames

\* The types of the directories, on their own.
DirsTyped ==
    /\ DOMAIN dirs \subseteq DirNames
    /\ \A d \in DOMAIN dirs : dirs[d] \in Directory

OpenTyped == open \in [Resolvers -> DirNames \cup {NoDir}]

\* The types are these two and what is left.
LEMMA StoreTypesAre ==
    StoreTypes <=> /\ AgentsTyped /\ DirsTyped /\ OpenTyped /\ present \subseteq Roots /\ day \in Nat
                   /\ stored \in [Roots -> Scanned]
  BY DEF StoreTypes, StoreTypeOK, AgentsTyped, DirsTyped, OpenTyped, Directory, Steps

\* One resolver goes on.
LEMMA AgentGoes ==
    ASSUME AgentsTyped, NEW a \in Resolvers, NEW rec, agent' = [agent EXCEPT ![a] = rec],
           rec \in [pc : Steps, root : Roots \cup {NoRoot}, dir : DirNames \cup {NoDir}],
           rec.pc # "idle" => rec.root \in Roots,
           rec.pc \in {"meta", "rename", "resolved", "using"} => rec.dir \in DirNames
    PROVE  AgentsTyped'
  BY DEF AgentsTyped

\* A directory that is still there, no poorer and no older.
Outlives(d) == /\ d \in DOMAIN dirs' /\ dirs[d].rows \subseteq dirs'[d].rows
               /\ dirs[d].touched <= dirs'[d].touched

\* A scan that is at work after a step was so before, and no directory was lost meanwhile.
WorkGoesOn == agent'["scan"].pc = "using" =>
                 agent'["scan"] = agent["scan"] /\ \A d \in DOMAIN dirs : Outlives(d)

\* What a step does to a directory that somebody stored in leaves the scan's work alone.
LEMMA UseKept == ASSUME StoreInv, WorkGoesOn PROVE InUse'
  BY DEF StoreInv, InUse, WorkGoesOn, Outlives

\* A step that leaves the clock and what was stored alone keeps the invariant, when no
\* directory is lost that somebody stored in and none becomes older or poorer.
LEMMA DirsKept ==
    ASSUME StoreInv, AgentsTyped', DirsTyped', OpenTyped', present' \subseteq Roots,
           UNCHANGED <<day, stored>>, WorkGoesOn,
           \A d \in DOMAIN dirs : day - dirs[d].touched >= StaleDays \/ Outlives(d)
    PROVE  StoreInv'
<1>1. StoreTypes'
  <2>1. Scanned' = Scanned
    BY DEF Scanned
  <2> QED BY <2>1, StoreTypesAre
          DEF StoreInv, StoreTypes, StoreTypeOK, AgentsTyped, DirsTyped, OpenTyped, Directory, Steps
<1>2. ASSUME NEW r \in Roots, stored[r].dir # NoDir, day - stored[r].day < StaleDays, stored[r].fresh
      PROVE  /\ stored[r].dir \in DOMAIN dirs' /\ r \in dirs'[stored[r].dir].rows
             /\ stored[r].day <= dirs'[stored[r].dir].touched
  <2> DEFINE d == stored[r].dir
  <2>1. d \in DOMAIN dirs /\ r \in dirs[d].rows /\ stored[r].day <= dirs[d].touched
    BY <1>2 DEF StoreInv, StoredIsTouched
  <2>2. stored[r].day \in Nat /\ dirs[d].touched \in Nat /\ day \in Nat /\ StaleDays \in Nat
    BY <2>1, StoreAssumption, StoreTypesAre DEF StoreInv, DirsTyped, Directory, Scanned
  <2>3. ~(day - dirs[d].touched >= StaleDays)
    BY <1>2, <2>1, <2>2
  <2>4. Outlives(d)
    BY <2>1, <2>3
  <2>5. dirs'[d].touched \in Nat
    BY <2>4, <2>2 DEF DirsTyped, Directory, Outlives
  <2> QED BY <2>1, <2>2, <2>4, <2>5 DEF Outlives
<1>3. day' = day /\ stored' = stored
  OBVIOUS
<1>4. StoredIsTouched'
  BY <1>2, <1>3 DEF StoredIsTouched
<1> QED BY <1>1, <1>4, UseKept DEF StoreInv

\* What a sweep takes or tears is old.
LEMMA SweepKeeps == ASSUME StoreInv, NEW r \in Roots, StartScan(r) PROVE StoreInv'
<1>1. AgentsTyped /\ DirsTyped /\ OpenTyped /\ present \subseteq Roots /\ day \in Nat
  BY StoreTypesAre DEF StoreInv
<1>2. PICK swept \in SUBSET {d \in DOMAIN dirs : Sweepable(d) /\ open["thumb"] # d} :
         \E torn \in SUBSET {d \in DOMAIN dirs \ swept : Sweepable(d)} :
            dirs' = [d \in DOMAIN dirs \ swept |->
                       IF d \in torn THEN [dirs[d] EXCEPT !.meta = NoRoot] ELSE dirs[d]]
  BY DEF StartScan
<1>3. PICK torn \in SUBSET {d \in DOMAIN dirs \ swept : Sweepable(d)} :
         dirs' = [d \in DOMAIN dirs \ swept |->
                    IF d \in torn THEN [dirs[d] EXCEPT !.meta = NoRoot] ELSE dirs[d]]
  BY <1>2
<1>4. AgentsTyped'
  BY <1>1, AgentGoes DEF StartScan, Steps, Resolvers
<1>5. UNCHANGED <<present, day, stored>>
  BY DEF StartScan, ResolveRest
<1>6. ASSUME NEW d \in DOMAIN dirs'
      PROVE  d \in DOMAIN dirs /\ dirs'[d] \in {dirs[d], [dirs[d] EXCEPT !.meta = NoRoot]}
  BY <1>3
<1>7. DirsTyped'
  BY <1>1, <1>3, <1>5, <1>6 DEF DirsTyped, Directory
<1>8. ASSUME NEW d \in DOMAIN dirs
      PROVE  day - dirs[d].touched >= StaleDays \/ Outlives(d)
  <2>1. CASE d \in swept
    BY <1>2, <2>1 DEF Sweepable
  <2>2. CASE d \notin swept
    <3>1. d \in DOMAIN dirs' /\ dirs'[d].rows = dirs[d].rows /\ dirs'[d].touched = dirs[d].touched
      BY <1>3, <2>2
    <3>2. dirs[d].touched \in Nat
      BY <1>1 DEF DirsTyped, Directory
    <3> QED BY <3>1, <3>2 DEF Outlives
  <2> QED BY <2>1, <2>2
<1>9. OpenTyped' /\ agent'["scan"].pc = "look"
  BY <1>1 DEF StartScan, OpenTyped, AgentsTyped, Resolvers
<1>10. WorkGoesOn
  BY <1>9 DEF WorkGoesOn
<1> QED BY <1>1, <1>4, <1>5, <1>7, <1>8, <1>9, <1>10, DirsKept

\* A step that touches no directory keeps them as they were.
LEMMA DirsStay ==
    ASSUME StoreInv, AgentsTyped', OpenTyped', UNCHANGED <<dirs, day, stored>>, present' \subseteq Roots,
           agent'["scan"].pc = "using" => agent'["scan"] = agent["scan"]
    PROVE  StoreInv'
<1>1. DirsTyped
  BY StoreTypesAre DEF StoreInv
<1>2. DirsTyped'
  BY <1>1 DEF DirsTyped, Directory
<1>3. \A d \in DOMAIN dirs : Outlives(d)
  <2>1. \A d \in DOMAIN dirs : dirs[d].touched \in Nat
    BY <1>1 DEF DirsTyped, Directory
  <2> QED BY <2>1 DEF Outlives
<1>4. WorkGoesOn
  BY <1>3 DEF WorkGoesOn
<1> QED BY <1>2, <1>3, <1>4, DirsKept

\* resolve takes a directory or makes one, and none is taken from another.
LEMMA ResolveKeeps ==
    ASSUME StoreInv, NEW a \in Resolvers, Look(a) \/ Choose(a) \/ WriteRecord(a) \/ RenameRecord(a)
    PROVE  StoreInv'
<1>1. AgentsTyped /\ DirsTyped /\ OpenTyped /\ present \subseteq Roots /\ day \in Nat
  BY StoreTypesAre DEF StoreInv
<1>2. UNCHANGED <<present, day, stored, open>> /\ OpenTyped'
  BY <1>1 DEF Look, Choose, WriteRecord, RenameRecord, ResolveRest, OpenTyped
<1>0. agent'["scan"].pc = "using" => agent'["scan"] = agent["scan"]
  <2>1. /\ agent' = [agent EXCEPT ![a] = agent'[a]]
        /\ agent'[a].pc # "using"
    <3>1. agent[a] \in [pc : Steps, root : Roots \cup {NoRoot}, dir : DirNames \cup {NoDir}]
          /\ agent = [x \in Resolvers |-> agent[x]]
      BY <1>1 DEF AgentsTyped
    <3>2. CASE Look(a)
      <4>1. CASE agent' = [agent EXCEPT ![a].pc = "choose"]
        BY <3>1, <4>1
      <4>2. CASE \E d \in Recorded(agent[a].root) :
                    agent' = [agent EXCEPT ![a].pc = "resolved", ![a].dir = d]
        <5>1. PICK d : agent' = [agent EXCEPT ![a].pc = "resolved", ![a].dir = d]
          BY <4>2
        <5> QED BY <3>1, <5>1
      <4> QED BY <3>2, <4>1, <4>2 DEF Look, Goto
    <3>3. CASE Choose(a)
      <4>1. PICK k \in 0..MaxSuffix :
               agent' = [agent EXCEPT ![a].pc = "meta", ![a].dir = <<agent[a].root, k>>]
        BY <3>3 DEF Choose
      <4> QED BY <3>1, <4>1
    <3>4. CASE WriteRecord(a)
      BY <3>1, <3>4 DEF WriteRecord, Goto, Idle
    <3>5. CASE RenameRecord(a)
      BY <3>1, <3>5 DEF RenameRecord, Goto, Idle
    <3> QED BY <3>2, <3>3, <3>4, <3>5
  <2> QED BY <1>1, <2>1 DEF AgentsTyped, Resolvers
<1>3. \A d \in DOMAIN dirs : dirs[d].touched \in 0..day
  BY <1>1 DEF DirsTyped, Directory
<1>4. agent[a] \in [pc : Steps, root : Roots \cup {NoRoot}, dir : DirNames \cup {NoDir}]
  BY <1>1 DEF AgentsTyped
<1> DEFINE to(pc, dir) == [agent[a] EXCEPT !.pc = pc, !.dir = dir]
<1>5. ASSUME NEW pc \in Steps, NEW dir \in DirNames, agent[a].root \in Roots, agent' = [agent EXCEPT ![a] = to(pc, dir)]
      PROVE  AgentsTyped'
  <2>1. to(pc, dir) \in [pc : Steps, root : Roots \cup {NoRoot}, dir : DirNames \cup {NoDir}]
        /\ to(pc, dir).root = agent[a].root /\ to(pc, dir).dir = dir
    BY <1>4
  <2> HIDE DEF to
  <2> QED BY <1>1, <1>5, <2>1, AgentGoes
<1>6. ASSUME agent' = [agent EXCEPT ![a] = Idle]
      PROVE  AgentsTyped'
  BY <1>1, <1>6, AgentGoes DEF Idle, Steps
<1>7. CASE Look(a)
  <2>1. agent[a].root \in Roots /\ UNCHANGED dirs
    BY <1>1, <1>7 DEF Look, At, AgentsTyped
  <2>2. ASSUME NEW d \in Recorded(agent[a].root), agent' = [agent EXCEPT ![a].pc = "resolved", ![a].dir = d]
        PROVE  AgentsTyped'
    <3>1. d \in DirNames
      BY <1>1 DEF Recorded, DirsTyped, Directory
    <3>2. agent' = [agent EXCEPT ![a] = to("resolved", d)]
      BY <1>4, <2>2
    <3> QED BY <1>5, <2>1, <3>1, <3>2 DEF Steps
  <2>3. ASSUME Goto(a, "choose")
        PROVE  AgentsTyped'
    BY <1>1, <2>1, <2>3 DEF Goto, AgentsTyped, Steps
  <2> QED BY <1>1, <1>0, <1>2, <1>7, <2>1, <2>2, <2>3, DirsStay DEF Look
<1>8. CASE Choose(a)
  <2> DEFINE r == agent[a].root
  <2>1. r \in Roots
    BY <1>1, <1>8 DEF Choose, At, AgentsTyped
  <2>2. PICK k \in 0..MaxSuffix :
           /\ IF <<r, k>> \in DOMAIN dirs THEN UNCHANGED dirs ELSE Put(<<r, k>>, Fresh)
           /\ agent' = [agent EXCEPT ![a].pc = "meta", ![a].dir = <<r, k>>]
    BY <1>8 DEF Choose
  <2>3. <<r, k>> \in DirNames
    BY <2>1 DEF DirNames
  <2>4. AgentsTyped'
    <3>1. agent' = [agent EXCEPT ![a] = to("meta", <<r, k>>)]
      BY <1>4, <2>2
    <3> QED BY <1>5, <2>1, <2>3, <3>1 DEF Steps
  <2>5. CASE UNCHANGED dirs
    BY <1>0, <1>1, <1>2, <2>4, <2>5, DirsStay
  <2>6. CASE <<r, k>> \notin DOMAIN dirs /\ Put(<<r, k>>, Fresh)
    <3>1. /\ DOMAIN dirs' = DOMAIN dirs \cup {<<r, k>>} /\ dirs'[<<r, k>>] = Fresh
          /\ \A d \in DOMAIN dirs : dirs'[d] = dirs[d]
      BY <2>6 DEF Put
    <3>2. Fresh \in Directory /\ Directory' = Directory
      BY <1>1, <1>2 DEF Fresh, Directory
    <3>3. DirsTyped'
      <4>1. ASSUME NEW d \in DOMAIN dirs' PROVE dirs'[d] \in Directory'
        BY <1>1, <3>1, <3>2 DEF DirsTyped
      <4>2. DOMAIN dirs' \subseteq DirNames
        BY <1>1, <2>3, <3>1 DEF DirsTyped
      <4> QED BY <4>1, <4>2 DEF DirsTyped
    <3>4. \A d \in DOMAIN dirs : Outlives(d)
      BY <1>3, <3>1 DEF Outlives
    <3>5. WorkGoesOn
      BY <1>0, <3>4 DEF WorkGoesOn
    <3> QED BY <1>1, <1>2, <2>4, <3>3, <3>4, <3>5, DirsKept
  <2> QED BY <2>2, <2>5, <2>6
<1>9. CASE WriteRecord(a)
  <2>1. agent[a].root \in Roots /\ agent[a].dir \in DirNames
    BY <1>1, <1>9 DEF WriteRecord, At, AgentsTyped
  <2>2. AgentsTyped'
    <3>1. CASE \E pc \in {"resolved", "rename"} : Goto(a, pc)
      BY <1>1, <2>1, <3>1 DEF Goto, AgentsTyped, Steps
    <3>2. CASE agent' = [agent EXCEPT ![a] = Idle]
      BY <1>6, <3>2
    <3> QED BY <1>9, <3>1, <3>2 DEF WriteRecord
  <2>3. CASE UNCHANGED dirs
    BY <1>0, <1>1, <1>2, <2>2, <2>3, DirsStay
  <2>4. CASE /\ agent[a].dir \in DOMAIN dirs
             /\ dirs' = [dirs EXCEPT ![agent[a].dir].tmp = TRUE, ![agent[a].dir].touched = day]
    <3> DEFINE d == agent[a].dir
    <3>0. dirs[d] \in Directory /\ day \in 0..day
      BY <1>1, <2>4 DEF DirsTyped
    <3>1. DirsTyped'
      <4>1. [dirs[d] EXCEPT !.tmp = TRUE, !.touched = day] \in Directory
        BY <3>0 DEF Directory
      <4>2. dirs' = [dirs EXCEPT ![d] = [dirs[d] EXCEPT !.tmp = TRUE, !.touched = day]]
        BY <2>4
      <4>3. Directory' = Directory
        BY <1>2 DEF Directory
      <4> QED BY <1>1, <2>1, <4>1, <4>2, <4>3 DEF DirsTyped
    <3>2. \A x \in DOMAIN dirs : Outlives(x)
      BY <1>1, <1>3, <2>4 DEF Outlives, DirsTyped, Directory
    <3>3. WorkGoesOn
      BY <1>0, <3>2 DEF WorkGoesOn
    <3> QED BY <1>1, <1>2, <2>2, <3>1, <3>2, <3>3, DirsKept
  <2> QED BY <1>9, <2>3, <2>4 DEF WriteRecord
<1>10. CASE RenameRecord(a)
  <2>1. agent[a].root \in Roots /\ agent[a].dir \in DirNames
    BY <1>1, <1>10 DEF RenameRecord, At, AgentsTyped
  <2>2. AgentsTyped'
    <3>1. CASE Goto(a, "resolved")
      BY <1>1, <2>1, <3>1 DEF Goto, AgentsTyped, Steps
    <3>2. CASE agent' = [agent EXCEPT ![a] = Idle]
      BY <1>6, <3>2
    <3> QED BY <1>10, <3>1, <3>2 DEF RenameRecord
  <2>3. CASE UNCHANGED dirs
    BY <1>0, <1>1, <1>2, <2>2, <2>3, DirsStay
  <2>4. CASE /\ agent[a].dir \in DOMAIN dirs
             /\ dirs' = [dirs EXCEPT ![agent[a].dir].meta = agent[a].root, ![agent[a].dir].tmp = FALSE,
                                     ![agent[a].dir].last = day, ![agent[a].dir].touched = day]
    <3>1. DirsTyped'
      BY <1>1, <1>2, <2>1, <2>4 DEF DirsTyped, Directory
    <3>2. \A d \in DOMAIN dirs : Outlives(d)
      BY <1>1, <1>3, <2>4 DEF Outlives, DirsTyped, Directory
    <3>3. WorkGoesOn
      BY <1>0, <3>2 DEF WorkGoesOn
    <3> QED BY <1>1, <1>2, <2>2, <3>1, <3>2, <3>3, DirsKept
  <2> QED BY <1>10, <2>3, <2>4 DEF RenameRecord
<1> QED BY <1>7, <1>8, <1>9, <1>10

\* A directory may be touched, and its write-ahead files changed.
LEMMA TouchedTyped ==
    ASSUME NEW rec \in Directory, NEW wal \in SUBSET Databases, NEW touched \in 0..day, rec.touched <= touched
    PROVE  LET new == [rec EXCEPT !.wal = wal, !.touched = touched]
           IN  new \in Directory /\ new.rows = rec.rows /\ rec.touched <= new.touched
  BY DEF Directory

\* ... and its record renewed.
LEMMA RenewedTyped ==
    ASSUME NEW rec \in Directory, day \in Nat
    PROVE  LET new == [rec EXCEPT !.last = day, !.touched = day]
           IN  new \in Directory /\ new.rows = rec.rows /\ new.touched = day /\ rec.touched <= day
<1>1. day \in 0..day /\ rec.touched <= day /\ rec.rows = [rec EXCEPT !.last = day, !.touched = day].rows
  BY DEF Directory
<1>2. ASSUME NEW last \in 0..day, NEW touched \in 0..day
      PROVE  /\ [rec EXCEPT !.last = last, !.touched = touched] \in Directory
             /\ [rec EXCEPT !.last = last, !.touched = touched].touched = touched
  BY DEF Directory
<1> QED BY <1>1, <1>2

\* Opening the databases of a directory makes none older or poorer.
LEMMA OpeningKeeps ==
    ASSUME day \in Nat, NEW ds, DOMAIN ds \subseteq DirNames, \A x \in DOMAIN ds : ds[x] \in Directory,
           NEW d \in DOMAIN ds, NEW files \in SUBSET Databases
    PROVE  /\ DOMAIN WithOpen(ds, d, files) = DOMAIN ds
           /\ \A x \in DOMAIN ds : /\ WithOpen(ds, d, files)[x] \in Directory
                                   /\ WithOpen(ds, d, files)[x].rows = ds[x].rows
                                   /\ ds[x].touched <= WithOpen(ds, d, files)[x].touched
<1> DEFINE rec == [ds[d] EXCEPT !.wal = @ \cup files,
                                !.touched = IF files \subseteq ds[d].wal THEN @ ELSE day]
<1>0. ds[d] \in Directory /\ day \in 0..day /\ ds[d].touched \in 0..day
  BY DEF Directory
<1>1. rec \in Directory /\ rec.rows = ds[d].rows /\ ds[d].touched <= rec.touched
  <2> DEFINE touched == IF files \subseteq ds[d].wal THEN ds[d].touched ELSE day
             wal == ds[d].wal \cup files
  <2>1. touched \in 0..day /\ ds[d].touched <= touched
    BY <1>0
  <2>2. wal \in SUBSET Databases
    BY <1>0 DEF Directory
  <2>3. rec = [ds[d] EXCEPT !.wal = wal, !.touched = touched]
    OBVIOUS
  <2> HIDE DEF rec, wal, touched
  <2> QED BY <1>0, <2>1, <2>2, <2>3, TouchedTyped
<1>2. WithOpen(ds, d, files) = [ds EXCEPT ![d] = rec]
  BY DEF WithOpen
<1>3. \A x \in DOMAIN ds : ds[x].touched <= ds[x].touched
  BY DEF Directory
<1> HIDE DEF rec
<1> QED BY <1>1, <1>2, <1>3

\* ... and so does closing them.
LEMMA ClosingKeeps ==
    ASSUME StoreInv, NEW a \in Resolvers
    PROVE  /\ DOMAIN WithClosed(dirs, a) = DOMAIN dirs
           /\ \A x \in DOMAIN dirs : /\ WithClosed(dirs, a)[x] \in Directory
                                     /\ WithClosed(dirs, a)[x].rows = dirs[x].rows
                                     /\ dirs[x].touched <= WithClosed(dirs, a)[x].touched
<1>1. DirsTyped /\ day \in Nat
  BY StoreTypesAre DEF StoreInv
<1>2. \A x \in DOMAIN dirs : dirs[x] \in Directory /\ dirs[x].touched <= dirs[x].touched
  BY <1>1 DEF DirsTyped, Directory
<1>3. CASE open[a] \in DOMAIN dirs /\ LastOf(a) # {}
  <2> DEFINE rec == [dirs[open[a]] EXCEPT !.wal = @ \ LastOf(a), !.touched = day]
  <2>0. dirs[open[a]] \in Directory /\ day \in 0..day
    BY <1>1, <1>2, <1>3
  <2>1. rec \in Directory /\ rec.rows = dirs[open[a]].rows /\ dirs[open[a]].touched <= rec.touched
    <3>1. dirs[open[a]].wal \ LastOf(a) \in SUBSET Databases /\ dirs[open[a]].touched <= day
      BY <2>0 DEF Directory
    <3> QED BY <2>0, <3>1, TouchedTyped
  <2>2. WithClosed(dirs, a) = [dirs EXCEPT ![open[a]] = rec]
    BY <1>3 DEF WithClosed
  <2> HIDE DEF rec
  <2> QED BY <1>2, <1>3, <2>1, <2>2
<1>4. CASE ~(open[a] \in DOMAIN dirs /\ LastOf(a) # {})
  BY <1>2, <1>4 DEF WithClosed
<1> QED BY <1>3, <1>4

\* What a scan stores in a directory it touches is there; what others stored stays.
LEMMA StoringKeeps ==
    ASSUME StoreInv, AgentsTyped', DirsTyped', OpenTyped', InUse', UNCHANGED <<present, day>>,
           \A x \in DOMAIN dirs : Outlives(x),
           NEW r \in Roots, NEW d \in DOMAIN dirs', r \in dirs'[d].rows, NEW made \in BOOLEAN,
           made => day <= dirs'[d].touched,
           stored' = [stored EXCEPT ![r] = [dir |-> d, day |-> day, fresh |-> made]]
    PROVE  StoreInv'
<1>1. DirsTyped /\ present \subseteq Roots /\ day \in Nat /\ stored \in [Roots -> Scanned]
  BY StoreTypesAre DEF StoreInv
<1>2. stored'[r] = [dir |-> d, day |-> day, fresh |-> made]
      /\ \A s \in Roots \ {r} : stored'[s] = stored[s]
  BY <1>1
<1>3. StoreTypes'
  <2>1. Scanned' = Scanned
    BY DEF Scanned
  <2>2. [dir |-> d, day |-> day, fresh |-> made] \in Scanned
    BY <1>1 DEF Scanned, DirsTyped
  <2>3. stored' \in [Roots -> Scanned]
    BY <1>1, <2>2
  <2> QED BY <1>1, <2>1, <2>3
          DEF StoreTypes, StoreTypeOK, AgentsTyped, DirsTyped, OpenTyped, Directory, Steps
<1>4. ASSUME NEW s \in Roots, stored'[s].dir # NoDir, day' - stored'[s].day < StaleDays, stored'[s].fresh
      PROVE  /\ stored'[s].dir \in DOMAIN dirs' /\ s \in dirs'[stored'[s].dir].rows
             /\ stored'[s].day <= dirs'[stored'[s].dir].touched
  <2>1. CASE s = r
    BY <1>2, <1>4, <2>1
  <2>2. CASE s # r
    <3>1. stored'[s] = stored[s]
      BY <1>2, <2>2
    <3>2. /\ stored[s].dir \in DOMAIN dirs /\ s \in dirs[stored[s].dir].rows
          /\ stored[s].day <= dirs[stored[s].dir].touched
      BY <1>4, <3>1 DEF StoreInv, StoredIsTouched
    <3>3. Outlives(stored[s].dir)
      BY <3>2
    <3>4. stored[s].day \in Nat /\ dirs[stored[s].dir].touched \in Nat /\ dirs'[stored[s].dir].touched \in Nat
      BY <1>1, <3>2, <3>3 DEF DirsTyped, Directory, Scanned, Outlives
    <3> QED BY <3>1, <3>2, <3>3, <3>4 DEF Outlives
  <2> QED BY <2>1, <2>2
<1>5. StoredIsTouched'
  BY <1>4 DEF StoredIsTouched
<1> QED BY <1>3, <1>5 DEF StoreInv

\* A scan stores in the directory it has opened, and touches it unless every write-ahead file was
\* left there.
LEMMA OpenKeeps == ASSUME StoreInv, OpenIndex PROVE StoreInv'
<1> DEFINE d == agent["scan"].dir
           r == agent["scan"].root
           opened == WithOpen(dirs, d, Databases)
           made == ~(Databases \subseteq dirs[d].wal)
<1>1. AgentsTyped /\ DirsTyped /\ OpenTyped /\ day \in Nat
  BY StoreTypesAre DEF StoreInv
<1>2. r \in Roots /\ d \in DirNames /\ d \in DOMAIN dirs
  BY <1>1 DEF OpenIndex, At, AgentsTyped, Resolvers
<1>3. AgentsTyped' /\ agent'["scan"].dir = d /\ agent'["scan"].root = r
  BY <1>1, <1>2 DEF OpenIndex, Goto, AgentsTyped, Steps, Resolvers
<1>4. OpenTyped'
  BY <1>1, <1>2 DEF OpenIndex, OpenTyped
<1>5. /\ DOMAIN opened = DOMAIN dirs
      /\ \A x \in DOMAIN dirs : /\ opened[x] \in Directory /\ opened[x].rows = dirs[x].rows
                                /\ dirs[x].touched <= opened[x].touched
  BY <1>1, <1>2, OpeningKeeps DEF DirsTyped
<1>6. made => opened[d].touched = day
  BY <1>1, <1>2 DEF WithOpen, DirsTyped, Directory
<1>7. dirs' = [opened EXCEPT ![d].rows = @ \cup {r}]
  BY DEF OpenIndex
<1>8. stored' = [stored EXCEPT ![r] = [dir |-> d, day |-> day, fresh |-> made]]
  BY DEF OpenIndex
<1>9. UNCHANGED <<present, day>>
  BY DEF OpenIndex
<1> HIDE DEF opened, d, r, made
<1> DEFINE rec == [opened[d] EXCEPT !.rows = @ \cup {r}]
<1>10. rec \in Directory /\ rec.rows = opened[d].rows \cup {r} /\ rec.touched = opened[d].touched
  BY <1>2, <1>5 DEF Directory
<1>11. dirs' = [opened EXCEPT ![d] = rec]
  BY <1>7
<1> HIDE DEF rec
<1>12. DirsTyped' /\ \A x \in DOMAIN dirs : Outlives(x)
  <2>1. Directory' = Directory
    BY <1>9 DEF Directory
  <2>2. \A x \in DOMAIN dirs : dirs'[x] \in Directory /\ dirs[x].rows \subseteq dirs'[x].rows
                               /\ dirs[x].touched <= dirs'[x].touched
    BY <1>2, <1>5, <1>10, <1>11
  <2>3. DOMAIN dirs' = DOMAIN dirs
    BY <1>5, <1>11
  <2> QED BY <1>1, <2>1, <2>2, <2>3 DEF DirsTyped, Outlives
<1>13. d \in DOMAIN dirs' /\ r \in dirs'[d].rows /\ (made => day <= dirs'[d].touched)
  BY <1>1, <1>2, <1>5, <1>6, <1>10, <1>11
<1>14. InUse'
  BY <1>3, <1>13 DEF InUse
<1>15. made \in BOOLEAN
  BY DEF made
<1> QED BY <1>2, <1>3, <1>4, <1>8, <1>9, <1>12, <1>13, <1>14, <1>15, StoringKeeps

\* A completed scan renews the record of the directory it works in.
LEMMA EndScanKeeps == ASSUME StoreInv, EndScan PROVE StoreInv'
<1> DEFINE d == agent["scan"].dir
           r == agent["scan"].root
<1>1. AgentsTyped /\ DirsTyped /\ OpenTyped /\ present \subseteq Roots /\ day \in Nat
  BY StoreTypesAre DEF StoreInv
<1>2. AgentsTyped' /\ OpenTyped' /\ agent'["scan"].pc = "idle" /\ UNCHANGED <<present, day>>
  BY <1>1, AgentGoes DEF EndScan, Idle, Steps, Resolvers, OpenTyped, AgentsTyped
<1>3. r \in Roots /\ d \in DOMAIN dirs /\ r \in dirs[d].rows
  BY <1>1 DEF EndScan, At, AgentsTyped, Resolvers, StoreInv, InUse
<1>4. CASE UNCHANGED <<dirs, stored>>
  BY <1>1, <1>2, <1>4, DirsStay
<1>5. CASE /\ dirs' = [dirs EXCEPT ![d].last = day, ![d].touched = day]
           /\ stored' = [stored EXCEPT ![r] = [dir |-> d, day |-> day, fresh |-> TRUE]]
  <2> DEFINE rec == [dirs[d] EXCEPT !.last = day, !.touched = day]
  <2>0. dirs[d] \in Directory /\ day \in 0..day
    BY <1>1, <1>3 DEF DirsTyped
  <2>1. rec \in Directory /\ rec.rows = dirs[d].rows /\ rec.touched = day /\ dirs[d].touched <= day
    BY <1>1, <2>0, RenewedTyped
  <2>2. dirs' = [dirs EXCEPT ![d] = rec]
    BY <1>5
  <2> HIDE DEF rec, d, r
  <2>3. \A x \in DOMAIN dirs : dirs[x].touched <= dirs[x].touched
    BY <1>1 DEF DirsTyped, Directory
  <2>4. \A x \in DOMAIN dirs : Outlives(x)
    BY <1>3, <2>1, <2>2, <2>3 DEF Outlives
  <2>5. DirsTyped'
    <3>1. Directory' = Directory
      BY <1>2 DEF Directory
    <3> QED BY <1>1, <2>1, <2>2, <3>1 DEF DirsTyped
  <2>6. d \in DOMAIN dirs' /\ r \in dirs'[d].rows /\ day <= dirs'[d].touched
    BY <1>1, <1>3, <2>1, <2>2
  <2>7. InUse'
    BY <1>2 DEF InUse
  <2> QED BY <1>2, <1>3, <1>5, <2>4, <2>5, <2>6, <2>7, StoringKeeps
<1> QED BY <1>4, <1>5 DEF EndScan

\* Databases that are opened and closed, beside what the scan does, touch directories only.
LEMMA ConnectionsKeep ==
    ASSUME StoreInv, AgentsTyped', OpenTyped', UNCHANGED <<present, day, stored>>,
           agent'["scan"].pc = "using" => agent'["scan"] = agent["scan"],
           DOMAIN dirs' = DOMAIN dirs,
           \A x \in DOMAIN dirs : dirs'[x] \in Directory /\ dirs'[x].rows = dirs[x].rows
                                  /\ dirs[x].touched <= dirs'[x].touched
    PROVE  StoreInv'
<1>1. DirsTyped /\ present \subseteq Roots
  BY StoreTypesAre DEF StoreInv
<1>2. \A x \in DOMAIN dirs : Outlives(x)
  BY DEF Outlives
<1>3. DirsTyped'
  <2>1. Directory' = Directory
    BY DEF Directory
  <2> QED BY <1>1, <2>1 DEF DirsTyped
<1>4. WorkGoesOn
  BY <1>2 DEF WorkGoesOn
<1> QED BY <1>1, <1>2, <1>3, <1>4, DirsKept

LEMMA CloseKeeps == ASSUME StoreInv, NEW a \in Resolvers, CloseSide(a) PROVE StoreInv'
<1>1. AgentsTyped /\ OpenTyped
  BY StoreTypesAre DEF StoreInv
<1>2. AgentsTyped' /\ OpenTyped' /\ UNCHANGED <<agent, present, day, stored>>
  BY <1>1 DEF CloseSide, ResolveRest, AgentsTyped, OpenTyped
<1>3. dirs' = WithClosed(dirs, a)
  BY DEF CloseSide
<1> QED BY <1>2, <1>3, ClosingKeeps, ConnectionsKeep

\* A request for a thumbnail closes what the one before it opened, and opens its own.
LEMMA ServedKeeps == ASSUME StoreInv, ThumbServed PROVE StoreInv'
<1> DEFINE d == agent["thumb"].dir
           closed == WithClosed(dirs, "thumb")
<1>1. AgentsTyped /\ DirsTyped /\ OpenTyped /\ day \in Nat
  BY StoreTypesAre DEF StoreInv
<1>2. AgentsTyped' /\ UNCHANGED <<present, day, stored>>
  BY <1>1, AgentGoes DEF ThumbServed, ResolveRest, Idle, Steps, Resolvers
<1>3. agent'["scan"] = agent["scan"]
  BY <1>1 DEF ThumbServed, AgentsTyped, Resolvers
<1>4. /\ DOMAIN closed = DOMAIN dirs
      /\ \A x \in DOMAIN dirs : /\ closed[x] \in Directory /\ closed[x].rows = dirs[x].rows
                                /\ dirs[x].touched <= closed[x].touched
  BY ClosingKeeps DEF Resolvers
<1>5. CASE d \in DOMAIN dirs
  <2>1. dirs' = WithOpen(closed, d, {"index"}) /\ OpenTyped'
    BY <1>1, <1>5 DEF ThumbServed, OpenTyped, DirsTyped
  <2> HIDE DEF closed, d
  <2>2. {"index"} \in SUBSET Databases
    BY DEF Databases
  <2> DEFINE after == WithOpen(closed, d, {"index"})
  <2>3. /\ DOMAIN after = DOMAIN closed
        /\ \A x \in DOMAIN closed : /\ after[x] \in Directory /\ after[x].rows = closed[x].rows
                                    /\ closed[x].touched <= after[x].touched
    BY <1>1, <1>4, <1>5, <2>2, OpeningKeeps DEF DirsTyped
  <2>4. \A x \in DOMAIN dirs : dirs[x].touched \in Int /\ closed[x].touched \in Int /\ after[x].touched \in Int
    BY <1>1, <1>4, <2>3 DEF DirsTyped, Directory
  <2> HIDE DEF after
  <2>5. \A x \in DOMAIN dirs : dirs[x].touched <= after[x].touched
    BY <1>4, <2>3, <2>4
  <2>6. dirs' = after
    BY <2>1 DEF after
  <2> QED BY <1>2, <1>3, <1>4, <2>1, <2>3, <2>5, <2>6, ConnectionsKeep
<1>6. CASE d \notin DOMAIN dirs
  <2>1. dirs' = closed /\ OpenTyped'
    BY <1>1, <1>6 DEF ThumbServed, OpenTyped
  <2> QED BY <1>2, <1>3, <1>4, <2>1, ConnectionsKeep
<1> QED BY <1>5, <1>6

\* What is stored only gets older.
LEMMA DayPassesStored == ASSUME StoreInv, NextDay PROVE StoreInv'
<1>1. /\ AgentsTyped /\ DirsTyped /\ OpenTyped /\ present \subseteq Roots /\ day \in Nat
      /\ stored \in [Roots -> Scanned]
  BY StoreTypesAre DEF StoreInv
<1>2. day' = day + 1 /\ UNCHANGED <<dirs, agent, open, present, stored>>
  BY DEF NextDay
<1>3. DirsTyped'
  BY <1>1, <1>2 DEF DirsTyped, Directory
<1>4. stored' \in [Roots -> Scanned']
  BY <1>1, <1>2 DEF Scanned
<1>5. StoreTypes'
  BY <1>1, <1>2, <1>3, <1>4
  DEF StoreTypes, StoreTypeOK, AgentsTyped, DirsTyped, OpenTyped, Directory, Steps
<1>6. ASSUME NEW s \in Roots, day' - stored[s].day < StaleDays
      PROVE  day - stored[s].day < StaleDays
  BY <1>1, <1>2, <1>6, StoreAssumption DEF Scanned
<1>7. StoredIsTouched' /\ InUse'
  BY <1>2, <1>6 DEF StoreInv, StoredIsTouched, InUse
<1> QED BY <1>5, <1>7 DEF StoreInv

\* Each step keeps what is young.
LEMMA StoreStep == StoreInv /\ [StoreNext]_storeVars => StoreInv'
<1> SUFFICES ASSUME StoreInv, [StoreNext]_storeVars PROVE StoreInv'
  OBVIOUS
<1>1. AgentsTyped /\ DirsTyped /\ OpenTyped /\ present \subseteq Roots /\ day \in Nat
  BY StoreTypesAre DEF StoreInv
<1>2. ASSUME NEW r \in Roots, RequestThumb(r) PROVE StoreInv'
  <2>1. AgentsTyped' /\ OpenTyped' /\ agent'["scan"] = agent["scan"]
    BY <1>1, <1>2, AgentGoes DEF RequestThumb, Steps, Resolvers, AgentsTyped, OpenTyped
  <2> QED BY <1>1, <1>2, <2>1, DirsStay DEF RequestThumb, ResolveRest
<1>3. ASSUME NEW r \in Roots, RootMoves(r) PROVE StoreInv'
  <2>1. AgentsTyped' /\ OpenTyped' /\ present' \subseteq Roots /\ UNCHANGED agent
    BY <1>1, <1>3 DEF RootMoves, AgentsTyped, OpenTyped
  <2> QED BY <1>3, <2>1, DirsStay DEF RootMoves
<1>4. CASE Kill
  <2>1. /\ AgentsTyped' /\ OpenTyped' /\ UNCHANGED <<present, day, stored, dirs>>
        /\ agent'["scan"].pc = "idle"
    BY <1>4 DEF Kill, AgentsTyped, Idle, Steps, OpenTyped, Resolvers
  <2> QED BY <1>1, <2>1, DirsStay
<1>5. CASE UNCHANGED storeVars
  <2>1. AgentsTyped' /\ OpenTyped' /\ UNCHANGED <<present, day, stored, dirs, agent>>
    BY <1>1, <1>5 DEF storeVars, AgentsTyped, OpenTyped
  <2> QED BY <1>1, <2>1, DirsStay
<1> QED
  BY <1>2, <1>3, <1>4, <1>5, SweepKeeps, ResolveKeeps, OpenKeeps, EndScanKeeps, CloseKeeps, ServedKeeps, DayPassesStored
  DEF StoreNext

\* What a scan has stored less than StaleDays ago is there, if it renewed the record or found no
\* write-ahead files of a killed one, for any number of roots, days, sweeps, kills and moves,
\* whatever of resolve was cut short (index_janitor.cpp).
THEOREM YoungIsKept == StoreSpec => []YoungIndexKept
<1>1. StoreInv => YoungIndexKept
  BY DEF StoreInv, StoredIsTouched, YoungIndexKept, Young, Survives
<1> QED
  BY <1>1, StoreBegins, StoreStep, PTL DEF StoreSpec

-----------------------------------------------------------------------------
(* TestAdoption: the baseline of the main index, and what an adoption keeps.   *)

\* An index, a scan and an adoption under way.
IndexRecord == [rows : [IndexFiles -> Nat], pairs : SUBSET SUBSET IndexFiles, baseline : BOOLEAN]
ScanJobs    == [folder : Folders, test : BOOLEAN, out : SUBSET IndexFiles]
ApplyJobs   == [folder : Folders \cup {NoFolder}, overtaken : BOOLEAN]

\* The types.
AdoptTypes ==
    /\ onDisk \in [IndexFiles -> Nat \ {0}]
    /\ mainIndex \in [Folders -> IndexRecord]
    /\ scratchIndex \in [folder : Folders \cup {NoFolder}, index : IndexRecord]
    /\ testSession \in [root : Folders \cup {NoFolder}, test : BOOLEAN, out : SUBSET IndexFiles, pending : BOOLEAN]
    /\ scanJob \in ScanJobs \cup {NoJob} /\ applyJob \in ApplyJobs \cup {NoJob}
    /\ loadJob \in [folder : Folders \cup {NoFolder}] /\ diffBox \in Folders \cup {NoFolder}

\* The pairs of an index are of files with a row; they are all its rows make.
Rowed(ix)    == \A p \in ix.pairs : \A f \in p : ix.rows[f] # 0
Complete(ix) == ix.pairs = AlikePairs(ix.rows)

\* The scan that runs is the session's.
ScanIsSessions ==
    scanJob # NoJob =>
        /\ scanJob.test = testSession.test /\ scanJob.out = testSession.out /\ ~testSession.pending
        /\ scanJob.test => scratchIndex.folder = scanJob.folder

\* What is pending, or being adopted and not overtaken by a scan, is the complete scratch index of the
\* folder the user was asked about.
PendingIsComplete ==
    testSession.pending =>
        Complete(scratchIndex.index) /\ scanJob = NoJob /\ diffBox \in {NoFolder, scratchIndex.folder}

ApplyIsComplete ==
    (applyJob # NoJob /\ ~applyJob.overtaken) =>
        Complete(scratchIndex.index) /\ scanJob = NoJob /\ applyJob.folder = scratchIndex.folder

\* A test scan leaves its scope out.
ScratchInScope == testSession.test => \A f \in testSession.out : scratchIndex.index.rows[f] = 0

AdoptInv ==
    /\ AdoptTypes
    /\ \A r \in Folders : Rowed(mainIndex[r])
    /\ Rowed(scratchIndex.index)
    /\ MainBaselineTrue /\ ScanIsSessions /\ PendingIsComplete /\ ApplyIsComplete /\ ScratchInScope

\* Alike files have rows.
LEMMA AlikeIsRowed ==
    ASSUME NEW rows
    PROVE  /\ AlikePairs(rows) \in SUBSET SUBSET IndexFiles
           /\ \A p \in AlikePairs(rows) : \A f \in p : rows[f] # 0
  BY DEF AlikePairs, PairsIn, Alike

\* What a completed scan leaves is complete, and its scope is left out.
LEMMA ScannedIsComplete ==
    ASSUME onDisk \in [IndexFiles -> Nat \ {0}], NEW r, NEW out
    PROVE  /\ ScannedIndex(r, out) \in IndexRecord
           /\ Rowed(ScannedIndex(r, out)) /\ Complete(ScannedIndex(r, out))
           /\ \A f \in out \cap IndexFiles : ScannedIndex(r, out).rows[f] = 0
<1> DEFINE rows == [f \in IndexFiles |-> IF f \in FilesOf[r] \ out THEN onDisk[f] ELSE 0]
<1>1. rows \in [IndexFiles -> Nat]
  OBVIOUS
<1>2. \A f \in out \cap IndexFiles : rows[f] = 0
  OBVIOUS
<1> HIDE DEF rows
<1>3. ScannedIndex(r, out) = [rows |-> rows, pairs |-> AlikePairs(rows), baseline |-> TRUE]
  BY DEF ScannedIndex, rows
<1>4. AlikePairs(rows) \in SUBSET SUBSET IndexFiles /\ \A p \in AlikePairs(rows) : \A f \in p : rows[f] # 0
  BY AlikeIsRowed
<1> QED BY <1>1, <1>2, <1>3, <1>4 DEF IndexRecord, Rowed, Complete

\* An empty index has no pairs, and is of no file.
LEMMA EmptyIsRowed == EmptyIndex \in IndexRecord /\ Rowed(EmptyIndex) /\ \A f \in IndexFiles : EmptyIndex.rows[f] = 0
  BY DEF EmptyIndex, IndexRecord, Rowed

\* What is adopted has pairs of files with rows; with no scope it is the scratch index, once all pairs
\* are of files with rows.
LEMMA AdoptedIs ==
    ASSUME NEW main \in IndexRecord, NEW scratch \in IndexRecord, NEW out \in SUBSET IndexFiles,
           Rowed(main), Rowed(scratch)
    PROVE  /\ Adopted(main, scratch, out) \in IndexRecord /\ Rowed(Adopted(main, scratch, out))
           /\ Adopted(main, scratch, out).baseline => out = {}
           /\ out = {} => /\ Adopted(main, scratch, out).rows = scratch.rows
                          /\ Adopted(main, scratch, out).pairs = scratch.pairs
<1> DEFINE removed == {f \in IndexFiles \ out : main.rows[f] # 0 /\ scratch.rows[f] = 0}
           scoped  == {f \in IndexFiles \ out : main.rows[f] # 0 \/ scratch.rows[f] # 0}
           rows    == [f \in IndexFiles |-> IF f \in removed THEN 0
                          ELSE IF scratch.rows[f] # 0 THEN scratch.rows[f] ELSE main.rows[f]]
           pairs   == {p \in main.pairs : p \cap removed = {} /\ ~(p \subseteq scoped)} \cup scratch.pairs
           base    == out = {} /\ (scratch.baseline \/ main.baseline)
<1>0. /\ main.rows \in [IndexFiles -> Nat] /\ scratch.rows \in [IndexFiles -> Nat]
      /\ main.pairs \in SUBSET SUBSET IndexFiles /\ scratch.pairs \in SUBSET SUBSET IndexFiles
      /\ main.baseline \in BOOLEAN /\ scratch.baseline \in BOOLEAN
  BY DEF IndexRecord
<1>1. rows \in [IndexFiles -> Nat] /\ pairs \in SUBSET SUBSET IndexFiles /\ base \in BOOLEAN
  BY <1>0
<1>2. \A p \in pairs : \A f \in p : rows[f] # 0
  BY <1>0 DEF Rowed
<1>3. ASSUME out = {} PROVE rows = scratch.rows /\ pairs = scratch.pairs
  <2>1. \A f \in IndexFiles : rows[f] = scratch.rows[f]
    BY <1>0, <1>3
  <2>2. rows = scratch.rows
    BY <1>0, <1>1, <2>1
  <2>3. \A p \in main.pairs : p \subseteq scoped
    BY <1>0, <1>3 DEF Rowed
  <2> QED BY <2>2, <2>3
<1>4. Adopted(main, scratch, out) = [rows |-> rows, pairs |-> pairs, baseline |-> base]
  BY DEF Adopted
<1>5. base => out = {}
  OBVIOUS
<1> HIDE DEF rows, pairs, base
<1> QED BY <1>1, <1>2, <1>3, <1>4, <1>5 DEF IndexRecord, Rowed

\* The main indices are complete at first.
LEMMA AdoptBegins == AdoptInit => AdoptInv
<1> SUFFICES ASSUME AdoptInit PROVE AdoptInv
  OBVIOUS
<1>1. onDisk \in [IndexFiles -> Nat \ {0}]
  BY DEF AdoptInit
<1>2. \A r \in Folders : mainIndex[r] \in IndexRecord /\ Rowed(mainIndex[r]) /\ Complete(mainIndex[r])
  BY <1>1, ScannedIsComplete DEF AdoptInit
<1>3. mainIndex \in [Folders -> IndexRecord]
  BY <1>2 DEF AdoptInit
<1>4. EmptyIndex \in IndexRecord /\ Rowed(EmptyIndex)
  BY EmptyIsRowed
<1>5. AdoptTypes
  BY <1>1, <1>3, <1>4 DEF AdoptInit, AdoptTypes, NoJob
<1>6. MainBaselineTrue
  BY <1>2 DEF MainBaselineTrue, Complete
<1>7. Rowed(scratchIndex.index)
  BY <1>4 DEF AdoptInit
<1> QED BY <1>2, <1>5, <1>6, <1>7
     DEF AdoptInit, AdoptInv, ScanIsSessions, PendingIsComplete, ApplyIsComplete, ScratchInScope

\* A scan that starts makes an adoption that is under way overtaken, and nothing is pending.
LEMMA StartKeeps ==
    ASSUME AdoptInv, NEW r \in Folders, NEW test \in BOOLEAN, NEW out \in TestScopes, StartIndexScan(r, test, out)
    PROVE  AdoptInv'
<1>1. AdoptTypes /\ out \in SUBSET IndexFiles
  BY AdoptionAssumption DEF AdoptInv
<1>2. scratchIndex' \in {[folder |-> r, index |-> EmptyIndex], scratchIndex} /\ Rowed(scratchIndex'.index)
      /\ scratchIndex' \in [folder : Folders \cup {NoFolder}, index : IndexRecord]
  BY <1>1, EmptyIsRowed DEF StartIndexScan, AdoptTypes, AdoptInv
<1>3. applyJob' \in ApplyJobs \cup {NoJob} /\ (applyJob' # NoJob => applyJob'.overtaken)
  BY <1>1 DEF StartIndexScan, AdoptTypes, ApplyJobs, NoJob
<1>4. /\ scanJob' = [folder |-> r, test |-> test, out |-> out]
      /\ testSession' = [root |-> r, test |-> test, out |-> out, pending |-> FALSE]
      /\ test => scratchIndex' = [folder |-> r, index |-> EmptyIndex]
      /\ UNCHANGED <<onDisk, mainIndex, loadJob, diffBox, astray>>
  BY DEF StartIndexScan
<1>5. AdoptTypes'
  <2>1. scanJob' \in ScanJobs
    BY <1>1, <1>4 DEF ScanJobs
  <2>2. testSession' \in [root : Folders \cup {NoFolder}, test : BOOLEAN, out : SUBSET IndexFiles, pending : BOOLEAN]
    BY <1>1, <1>4
  <2> QED BY <1>1, <1>2, <1>3, <1>4, <2>1, <2>2 DEF AdoptTypes, ScanJobs, ApplyJobs
<1>6. MainBaselineTrue' /\ \A s \in Folders : Rowed(mainIndex'[s])
  BY <1>4 DEF AdoptInv, MainBaselineTrue
<1>7. ScanIsSessions' /\ PendingIsComplete' /\ ApplyIsComplete'
  BY <1>3, <1>4 DEF ScanIsSessions, PendingIsComplete, ApplyIsComplete
<1>8. ScratchInScope'
  BY <1>1, <1>4, EmptyIsRowed DEF ScratchInScope
<1> QED BY <1>2, <1>5, <1>6, <1>7, <1>8 DEF AdoptInv

\* A completed scan leaves a complete index, the main one or the scratch.
LEMMA EndKeepsBaseline == ASSUME AdoptInv, IndexScanEnds PROVE AdoptInv'
<1>1. AdoptTypes /\ scanJob \in ScanJobs /\ scanJob # NoJob
  BY DEF AdoptInv, AdoptTypes, IndexScanEnds
<1> DEFINE r == scanJob.folder
           done == ScannedIndex(scanJob.folder, scanJob.out)
           differs == Differs(mainIndex[scanJob.folder], done, scanJob.out)
<1>2. r \in Folders /\ scanJob.test \in BOOLEAN /\ scanJob.out \in SUBSET IndexFiles
  BY <1>1 DEF ScanJobs
<1>3. done \in IndexRecord /\ Rowed(done) /\ Complete(done) /\ \A f \in scanJob.out : done.rows[f] = 0
  BY <1>1, <1>2, ScannedIsComplete DEF AdoptTypes
<1>4. /\ scanJob.test = testSession.test /\ scanJob.out = testSession.out
      /\ scanJob.test => scratchIndex.folder = r
  BY <1>1 DEF AdoptInv, ScanIsSessions
<1>5. applyJob # NoJob => applyJob.overtaken
  BY <1>1 DEF AdoptInv, ApplyIsComplete
<1>6. scanJob' = NoJob /\ UNCHANGED <<onDisk, loadJob, applyJob, adoptLeft>>
  BY DEF IndexScanEnds
<1>7. ApplyIsComplete' /\ ScanIsSessions'
  BY <1>5, <1>6 DEF ApplyIsComplete, ScanIsSessions
<1>8. differs \in BOOLEAN
  BY DEF Differs
<1>9. CASE scanJob.test
  <2>1. /\ scratchIndex' = [scratchIndex EXCEPT !.index = done]
        /\ testSession' = [testSession EXCEPT !.pending = differs]
        /\ diffBox' = IF differs THEN r ELSE diffBox
        /\ UNCHANGED <<mainIndex, astray>>
    BY <1>9 DEF IndexScanEnds
  <2> HIDE DEF done, differs, r
  <2>2. /\ scratchIndex' \in [folder : Folders \cup {NoFolder}, index : IndexRecord]
        /\ scratchIndex'.index = done /\ scratchIndex'.folder = scratchIndex.folder
    BY <1>1, <1>3, <2>1 DEF AdoptTypes
  <2>3. /\ testSession' \in [root : Folders \cup {NoFolder}, test : BOOLEAN, out : SUBSET IndexFiles, pending : BOOLEAN]
        /\ testSession'.pending = differs /\ testSession'.out = testSession.out /\ testSession'.test = testSession.test
    BY <1>1, <1>8, <2>1 DEF AdoptTypes
  <2>4. diffBox' \in Folders \cup {NoFolder}
    BY <1>1, <1>2, <2>1 DEF AdoptTypes
  <2>5. AdoptTypes'
    BY <1>1, <1>6, <2>1, <2>2, <2>3, <2>4 DEF AdoptTypes, ScanJobs, ApplyJobs
  <2>6. MainBaselineTrue' /\ \A s \in Folders : Rowed(mainIndex'[s])
    BY <2>1 DEF AdoptInv, MainBaselineTrue
  <2>7. PendingIsComplete' /\ ScratchInScope' /\ Rowed(scratchIndex'.index)
    BY <1>3, <1>4, <1>6, <1>9, <2>1, <2>2, <2>3 DEF PendingIsComplete, ScratchInScope
  <2> QED BY <1>7, <2>5, <2>6, <2>7 DEF AdoptInv
<1>10. CASE ~scanJob.test
  <2>1. /\ mainIndex' = [mainIndex EXCEPT ![r] = done]
        /\ astray' = astray \ {r}
        /\ UNCHANGED <<scratchIndex, testSession, diffBox>>
    BY <1>10 DEF IndexScanEnds
  <2> HIDE DEF done, differs, r
  <2>2. /\ mainIndex' \in [Folders -> IndexRecord] /\ mainIndex'[r] = done
        /\ \A s \in Folders : s # r => mainIndex'[s] = mainIndex[s]
    BY <1>1, <1>2, <1>3, <2>1 DEF AdoptTypes
  <2>3. AdoptTypes'
    BY <1>1, <1>6, <2>1, <2>2 DEF AdoptTypes, ScanJobs, ApplyJobs
  <2>4. \A s \in Folders : Rowed(mainIndex'[s])
    BY <1>3, <2>2 DEF AdoptInv
  <2>5. MainBaselineTrue'
    BY <1>3, <2>1, <2>2 DEF AdoptInv, MainBaselineTrue, Complete
  <2>6. ~testSession.pending /\ ~testSession.test
    BY <1>1, <1>4, <1>10 DEF AdoptInv, ScanIsSessions
  <2>7. PendingIsComplete' /\ ScratchInScope' /\ Rowed(scratchIndex'.index)
    BY <2>1, <2>6 DEF AdoptInv, PendingIsComplete, ScratchInScope
  <2> QED BY <1>7, <2>3, <2>4, <2>5, <2>7 DEF AdoptInv
<1> QED BY <1>2, <1>9, <1>10

\* A scan that is stopped adds rows and takes the baseline away.
LEMMA StopKeepsBaseline == ASSUME AdoptInv, IndexScanStops PROVE AdoptInv'
<1>1. AdoptTypes /\ scanJob \in ScanJobs /\ scanJob # NoJob
  BY DEF AdoptInv, AdoptTypes, IndexScanStops
<1> DEFINE r == scanJob.folder
<1>2. r \in Folders /\ scanJob.test \in BOOLEAN
  BY <1>1 DEF ScanJobs
<1>3. /\ scanJob.test = testSession.test /\ scanJob.out = testSession.out /\ ~testSession.pending
  BY <1>1 DEF AdoptInv, ScanIsSessions
<1>4. applyJob # NoJob => applyJob.overtaken
  BY <1>1 DEF AdoptInv, ApplyIsComplete
<1>5. scanJob' = NoJob /\ UNCHANGED <<onDisk, testSession, loadJob, applyJob, diffBox, astray>>
  BY DEF IndexScanStops
<1>6. ApplyIsComplete' /\ ScanIsSessions' /\ PendingIsComplete'
  BY <1>3, <1>4, <1>5 DEF ApplyIsComplete, ScanIsSessions, PendingIsComplete
<1>7. PICK new \in SUBSET (FilesOf[scanJob.folder] \ scanJob.out) :
        LET Stopped(ix) == [ix EXCEPT !.baseline = FALSE,
                !.rows = [f \in IndexFiles |-> IF f \in new THEN onDisk[f] ELSE ix.rows[f]]]
        IN  IF scanJob.test
            THEN scratchIndex' = [scratchIndex EXCEPT !.index = Stopped(@)] /\ UNCHANGED mainIndex
            ELSE mainIndex' = [mainIndex EXCEPT ![scanJob.folder] = Stopped(@)] /\ UNCHANGED scratchIndex
  BY DEF IndexScanStops
<1> DEFINE Stopped(ix) == [ix EXCEPT !.baseline = FALSE,
                !.rows = [f \in IndexFiles |-> IF f \in new THEN onDisk[f] ELSE ix.rows[f]]]
<1>8. ASSUME NEW ix \in IndexRecord, Rowed(ix)
      PROVE  /\ Stopped(ix) \in IndexRecord /\ Rowed(Stopped(ix)) /\ ~Stopped(ix).baseline
             /\ \A f \in scanJob.out \cap IndexFiles : Stopped(ix).rows[f] = ix.rows[f]
  <2> DEFINE rows == [f \in IndexFiles |-> IF f \in new THEN onDisk[f] ELSE ix.rows[f]]
  <2>1. /\ ix.rows \in [IndexFiles -> Nat] /\ ix.pairs \in SUBSET SUBSET IndexFiles
        /\ onDisk \in [IndexFiles -> Nat \ {0}]
    BY <1>1, <1>8 DEF IndexRecord, AdoptTypes
  <2>2. rows \in [IndexFiles -> Nat] /\ \A f \in IndexFiles : ix.rows[f] # 0 => rows[f] # 0
    BY <2>1
  <2>3. \A f \in scanJob.out \cap IndexFiles : rows[f] = ix.rows[f]
    BY <1>7
  <2> HIDE DEF rows
  <2>4. [ix EXCEPT !.baseline = FALSE, !.rows = rows] \in IndexRecord
        /\ [ix EXCEPT !.baseline = FALSE, !.rows = rows].rows = rows
        /\ [ix EXCEPT !.baseline = FALSE, !.rows = rows].pairs = ix.pairs
        /\ ~[ix EXCEPT !.baseline = FALSE, !.rows = rows].baseline
    BY <1>8, <2>2 DEF IndexRecord
  <2>5. \A p \in ix.pairs : \A f \in p : rows[f] # 0
    BY <1>8, <2>1, <2>2 DEF Rowed
  <2> QED BY <2>3, <2>4, <2>5 DEF Rowed, rows
<1>9. CASE scanJob.test
  <2>1. scratchIndex' = [scratchIndex EXCEPT !.index = Stopped(scratchIndex.index)] /\ UNCHANGED mainIndex
    BY <1>7, <1>9
  <2>2. scratchIndex.index \in IndexRecord /\ Rowed(scratchIndex.index)
    BY <1>1 DEF AdoptTypes, AdoptInv
  <2>3. /\ Stopped(scratchIndex.index) \in IndexRecord /\ Rowed(Stopped(scratchIndex.index))
        /\ \A f \in scanJob.out \cap IndexFiles : Stopped(scratchIndex.index).rows[f] = scratchIndex.index.rows[f]
    BY <1>8, <2>2
  <2> HIDE DEF Stopped
  <2>4. /\ scratchIndex' \in [folder : Folders \cup {NoFolder}, index : IndexRecord]
        /\ scratchIndex'.index = Stopped(scratchIndex.index)
    BY <1>1, <2>1, <2>3 DEF AdoptTypes
  <2>5. AdoptTypes'
    BY <1>1, <1>5, <2>1, <2>4 DEF AdoptTypes, ScanJobs, ApplyJobs
  <2>6. MainBaselineTrue' /\ \A s \in Folders : Rowed(mainIndex'[s])
    BY <1>5, <2>1 DEF AdoptInv, MainBaselineTrue
  <2>7. testSession.out \in SUBSET IndexFiles
    BY <1>1 DEF AdoptTypes
  <2>8. ScratchInScope' /\ Rowed(scratchIndex'.index)
    BY <1>3, <1>5, <2>3, <2>4, <2>7 DEF AdoptInv, ScratchInScope
  <2> QED BY <1>6, <2>5, <2>6, <2>8 DEF AdoptInv
<1>10. CASE ~scanJob.test
  <2>1. mainIndex' = [mainIndex EXCEPT ![r] = Stopped(mainIndex[r])] /\ UNCHANGED scratchIndex
    BY <1>7, <1>10
  <2>2. /\ Stopped(mainIndex[r]) \in IndexRecord /\ Rowed(Stopped(mainIndex[r])) /\ ~Stopped(mainIndex[r]).baseline
    BY <1>1, <1>2, <1>8 DEF AdoptTypes, AdoptInv
  <2> HIDE DEF Stopped, r
  <2>3. /\ mainIndex' \in [Folders -> IndexRecord] /\ mainIndex'[r] = Stopped(mainIndex[r])
        /\ \A s \in Folders : s # r => mainIndex'[s] = mainIndex[s]
    BY <1>1, <1>2, <2>1, <2>2 DEF AdoptTypes
  <2>4. AdoptTypes'
    BY <1>1, <1>5, <2>1, <2>3 DEF AdoptTypes, ScanJobs, ApplyJobs
  <2>5. MainBaselineTrue' /\ \A s \in Folders : Rowed(mainIndex'[s])
    BY <1>5, <2>2, <2>3 DEF AdoptInv, MainBaselineTrue
  <2>6. ScratchInScope' /\ Rowed(scratchIndex'.index)
    BY <1>5, <2>1 DEF AdoptInv, ScratchInScope
  <2> QED BY <1>6, <2>4, <2>5, <2>6 DEF AdoptInv
<1> QED BY <1>2, <1>9, <1>10

\* The index that is adopted: the scratch one, or an empty one when it is another folder's.
LEMMA ScratchOfIs ==
    ASSUME AdoptInv, NEW r \in Folders
    PROVE  /\ ScratchOf(r) \in IndexRecord /\ Rowed(ScratchOf(r))
           /\ testSession.test => \A f \in testSession.out : ScratchOf(r).rows[f] = 0
<1>1. testSession.out \in SUBSET IndexFiles /\ scratchIndex.index \in IndexRecord
  BY DEF AdoptInv, AdoptTypes
<1> QED BY <1>1, EmptyIsRowed DEF ScratchOf, AdoptInv, ScratchInScope

\* An adoption that is neither overtaken nor led astray leaves the complete scratch index, where it
\* keeps a baseline at all.
LEMMA ApplyKeeps == ASSUME AdoptInv, ApplyRuns PROVE AdoptInv'
<1>1. AdoptTypes /\ applyJob \in ApplyJobs /\ applyJob # NoJob
  BY DEF AdoptInv, AdoptTypes, ApplyRuns
<1>2. applyJob' = NoJob /\ UNCHANGED <<onDisk, scratchIndex, scanJob, loadJob, diffBox>>
  BY DEF ApplyRuns
<1>3. /\ testSession' \in [root : Folders \cup {NoFolder}, test : BOOLEAN, out : SUBSET IndexFiles, pending : BOOLEAN]
      /\ testSession'.test = testSession.test /\ testSession'.out = testSession.out
      /\ testSession'.pending => testSession.pending
  BY <1>1 DEF AdoptTypes, ApplyRuns
<1>4. /\ ScanIsSessions' /\ PendingIsComplete' /\ ApplyIsComplete' /\ ScratchInScope' /\ Rowed(scratchIndex'.index)
  BY <1>2, <1>3 DEF AdoptInv, ScanIsSessions, PendingIsComplete, ApplyIsComplete, ScratchInScope
<1>5. CASE UNCHANGED <<mainIndex, astray>>
  <2>1. AdoptTypes'
    BY <1>1, <1>2, <1>3, <1>5 DEF AdoptTypes, ScanJobs, ApplyJobs
  <2>2. MainBaselineTrue' /\ \A s \in Folders : Rowed(mainIndex'[s])
    BY <1>5 DEF AdoptInv, MainBaselineTrue
  <2> QED BY <1>4, <2>1, <2>2 DEF AdoptInv
<1>6. ASSUME testSession.test,
             mainIndex' = [mainIndex EXCEPT ![testSession.root] =
                             Adopted(@, ScratchOf(testSession.root), testSession.out)],
             astray' = IF testSession.root # applyJob.folder \/ applyJob.overtaken
                       THEN astray \cup {testSession.root} ELSE astray
      PROVE  AdoptInv'
  <2> DEFINE r == testSession.root
             new == Adopted(mainIndex[r], ScratchOf(r), testSession.out)
  <2>1. ASSUME r \in Folders
        PROVE  /\ new \in IndexRecord /\ Rowed(new) /\ (new.baseline => testSession.out = {})
               /\ testSession.out = {} => new.rows = ScratchOf(r).rows /\ new.pairs = ScratchOf(r).pairs
    BY <1>1, <2>1, ScratchOfIs, AdoptedIs DEF AdoptInv, AdoptTypes
  <2>2. ASSUME r \in Folders, r = applyJob.folder, ~applyJob.overtaken
        PROVE  Complete(ScratchOf(r))
    BY <1>1, <2>2 DEF AdoptInv, ApplyIsComplete, ScratchOf
  <2>3. mainIndex' = [mainIndex EXCEPT ![r] = new]
    BY <1>6
  <2>4. astray \subseteq astray' /\ (r \notin astray' => r = applyJob.folder /\ ~applyJob.overtaken)
    BY <1>1, <1>6 DEF ApplyJobs
  <2> HIDE DEF r, new
  <2>5. /\ mainIndex' \in [Folders -> IndexRecord] /\ (r \in Folders => mainIndex'[r] = new)
        /\ \A s \in Folders : s # r => mainIndex'[s] = mainIndex[s]
    BY <1>1, <2>1, <2>3 DEF AdoptTypes
  <2>6. AdoptTypes'
    BY <1>1, <1>2, <1>3, <2>5 DEF AdoptTypes, ScanJobs, ApplyJobs
  <2>7. \A s \in Folders : Rowed(mainIndex'[s])
    BY <2>1, <2>5 DEF AdoptInv
  <2>8. ASSUME NEW s \in Folders, s \notin astray', mainIndex'[s].baseline
        PROVE  mainIndex'[s].pairs = AlikePairs(mainIndex'[s].rows)
    <3>1. CASE s = r
      BY <2>1, <2>2, <2>4, <2>5, <2>8, <3>1 DEF Complete
    <3>2. CASE s # r
      BY <2>4, <2>5, <2>8, <3>2 DEF AdoptInv, MainBaselineTrue
    <3> QED BY <3>1, <3>2
  <2>9. MainBaselineTrue'
    BY <2>8 DEF MainBaselineTrue
  <2> QED BY <1>4, <2>6, <2>7, <2>9 DEF AdoptInv
<1> QED BY <1>5, <1>6 DEF ApplyRuns

\* Each step keeps the baseline's truth.
LEMMA AdoptStep == AdoptInv /\ [AdoptNext]_adoptVars => AdoptInv'
<1> SUFFICES ASSUME AdoptInv, [AdoptNext]_adoptVars PROVE AdoptInv'
  OBVIOUS
<1>1. AdoptTypes
  BY DEF AdoptInv
<1>2. ASSUME NEW f \in IndexFiles, EditFile(f) PROVE AdoptInv'
  <2>1. onDisk' \in [IndexFiles -> Nat \ {0}]
    BY <1>1, <1>2 DEF EditFile, AdoptTypes
  <2>2. UNCHANGED <<mainIndex, scratchIndex, testSession, scanJob, loadJob, applyJob, diffBox, astray>>
    BY <1>2 DEF EditFile
  <2>3. AdoptTypes'
    BY <1>1, <2>1, <2>2 DEF AdoptTypes, ScanJobs, ApplyJobs
  <2> QED BY <2>2, <2>3 DEF AdoptInv, MainBaselineTrue, ScanIsSessions, PendingIsComplete, ApplyIsComplete, ScratchInScope
<1>3. ASSUME NEW r \in Folders, StartLoad(r) PROVE AdoptInv'
  <2>1. loadJob' \in [folder : Folders \cup {NoFolder}]
    BY <1>3 DEF StartLoad
  <2>2. UNCHANGED <<onDisk, mainIndex, scratchIndex, testSession, scanJob, applyJob, diffBox, astray>>
    BY <1>3 DEF StartLoad
  <2>3. AdoptTypes'
    BY <1>1, <2>1, <2>2 DEF AdoptTypes, ScanJobs, ApplyJobs
  <2> QED BY <2>2, <2>3 DEF AdoptInv, MainBaselineTrue, ScanIsSessions, PendingIsComplete, ApplyIsComplete, ScratchInScope
<1>4. CASE LoadRuns
  <2>1. /\ loadJob' \in [folder : Folders \cup {NoFolder}]
        /\ testSession' \in [root : Folders \cup {NoFolder}, test : BOOLEAN, out : SUBSET IndexFiles, pending : BOOLEAN]
        /\ testSession'.test = testSession.test /\ testSession'.out = testSession.out
        /\ testSession'.pending = testSession.pending
    BY <1>1, <1>4 DEF LoadRuns, AdoptTypes, NoJob
  <2>2. UNCHANGED <<onDisk, mainIndex, scratchIndex, scanJob, applyJob, diffBox, astray>>
    BY <1>4 DEF LoadRuns
  <2>3. AdoptTypes'
    BY <1>1, <2>1, <2>2 DEF AdoptTypes, ScanJobs, ApplyJobs
  <2> QED BY <2>1, <2>2, <2>3 DEF AdoptInv, MainBaselineTrue, ScanIsSessions, PendingIsComplete, ApplyIsComplete, ScratchInScope
<1>5. ASSUME NEW yes \in BOOLEAN, AnswerBox(yes) PROVE AdoptInv'
  <2>1. /\ diffBox # NoFolder /\ diffBox' = NoFolder
        /\ UNCHANGED <<onDisk, mainIndex, scratchIndex, testSession, scanJob, loadJob, astray>>
    BY <1>5 DEF AnswerBox
  <2>2. \/ applyJob' = applyJob
        \/ /\ testSession.pending /\ applyJob' = [folder |-> diffBox, overtaken |-> FALSE]
           /\ Complete(scratchIndex.index) /\ scanJob = NoJob /\ diffBox = scratchIndex.folder
    BY <1>5, <2>1 DEF AnswerBox, AdoptInv, PendingIsComplete
  <2>3. applyJob' \in ApplyJobs \cup {NoJob}
    <3>1. applyJob \in ApplyJobs \cup {NoJob} /\ diffBox \in Folders \cup {NoFolder}
      BY <1>1 DEF AdoptTypes
    <3>2. [folder |-> diffBox, overtaken |-> FALSE] \in ApplyJobs
      BY <3>1 DEF ApplyJobs
    <3> QED BY <2>2, <3>1, <3>2
  <2>4. AdoptTypes'
    BY <1>1, <2>1, <2>3 DEF AdoptTypes, ScanJobs, ApplyJobs
  <2>5. ApplyIsComplete' /\ PendingIsComplete'
    BY <2>1, <2>2 DEF AdoptInv, ApplyIsComplete, PendingIsComplete
  <2> QED BY <2>1, <2>4, <2>5 DEF AdoptInv, MainBaselineTrue, ScanIsSessions, ScratchInScope
<1>6. CASE UNCHANGED adoptVars
  <2>1. AdoptTypes'
    BY <1>1, <1>6 DEF AdoptTypes, ScanJobs, ApplyJobs, adoptVars
  <2> QED BY <1>6, <2>1
       DEF AdoptInv, MainBaselineTrue, ScanIsSessions, PendingIsComplete, ApplyIsComplete, ScratchInScope, adoptVars
<1> QED
  BY <1>2, <1>3, <1>4, <1>5, <1>6, StartKeeps, EndKeepsBaseline, StopKeepsBaseline, ApplyKeeps DEF AdoptNext

\* What an adoption may change.
KeepsScope ==
    \A r \in Folders :
        /\ \A f \in testSession.out : mainIndex'[r].rows[f] = mainIndex[r].rows[f]
        /\ \A p \in mainIndex[r].pairs \ mainIndex'[r].pairs :
                p \subseteq IndexFiles \ testSession.out \/ \E f \in p : mainIndex'[r].rows[f] = 0
        /\ mainIndex'[r] # mainIndex[r] => r = testSession.root

\* An adoption stays within its scope: a test scan leaves its scope out.
LEMMA ApplyInScope == ASSUME AdoptInv, ApplyRuns PROVE KeepsScope
<1>1. AdoptTypes /\ testSession.out \in SUBSET IndexFiles
  BY DEF AdoptInv, AdoptTypes
<1>2. CASE UNCHANGED mainIndex
  BY <1>2 DEF KeepsScope
<1>3. ASSUME testSession.test,
             mainIndex' = [mainIndex EXCEPT ![testSession.root] =
                             Adopted(@, ScratchOf(testSession.root), testSession.out)]
      PROVE  KeepsScope
  <2> SUFFICES ASSUME NEW r \in Folders
               PROVE  /\ \A f \in testSession.out : mainIndex'[r].rows[f] = mainIndex[r].rows[f]
                      /\ \A p \in mainIndex[r].pairs \ mainIndex'[r].pairs :
                              p \subseteq IndexFiles \ testSession.out \/ \E f \in p : mainIndex'[r].rows[f] = 0
                      /\ mainIndex'[r] # mainIndex[r] => r = testSession.root
    BY DEF KeepsScope
  <2>1. CASE r # testSession.root
    <3>1. mainIndex'[r] = mainIndex[r]
      BY <1>1, <1>3, <2>1 DEF AdoptTypes
    <3> QED BY <3>1
  <2>2. CASE r = testSession.root
    <3> DEFINE main    == mainIndex[r]
               scratch == ScratchOf(r)
               out     == testSession.out
               removed == {f \in IndexFiles \ out : main.rows[f] # 0 /\ scratch.rows[f] = 0}
               scoped  == {f \in IndexFiles \ out : main.rows[f] # 0 \/ scratch.rows[f] # 0}
               rows    == [f \in IndexFiles |-> IF f \in removed THEN 0
                              ELSE IF scratch.rows[f] # 0 THEN scratch.rows[f] ELSE main.rows[f]]
               pairs   == {p \in main.pairs : p \cap removed = {} /\ ~(p \subseteq scoped)} \cup scratch.pairs
               base    == out = {} /\ (scratch.baseline \/ main.baseline)
    <3>1. mainIndex'[r] = [rows |-> rows, pairs |-> pairs, baseline |-> base]
      BY <1>1, <1>3, <2>2 DEF AdoptTypes, Adopted
    <3>2. \A f \in out : scratch.rows[f] = 0
      BY <1>3, ScratchOfIs
    <3>3. \A f \in out : rows[f] = main.rows[f]
      BY <1>1, <3>2
    <3>4. ASSUME NEW p \in main.pairs, p \notin pairs
          PROVE  p \subseteq IndexFiles \ out \/ \E f \in p : rows[f] = 0
      BY <3>4
    <3> HIDE DEF rows, pairs, base
    <3> QED BY <2>2, <3>1, <3>3, <3>4
  <2> QED BY <2>1, <2>2
<1> QED BY <1>2, <1>3 DEF ApplyRuns

\* For every set of folders, files and scopes: the main index of a folder counts as complete only if it
\* has all pairs of its rows, unless it got what nobody had compared; and an adoption changes no
\* row and loses no pair out of the scope of its test scan (adoptIndexDatabase, runApplyTestResult).
THEOREM AdoptionIsTrue == AdoptSpec => AdoptionTrue
<1>1. AdoptSpec => []AdoptInv
  BY AdoptBegins, AdoptStep, PTL DEF AdoptSpec
<1>2. AdoptInv /\ [AdoptNext]_adoptVars => [ApplyRuns => KeepsScope]_adoptVars
  BY ApplyInScope
<1>3. AdoptSpec => AdoptInScope
  <2>1. AdoptSpec => [][ApplyRuns => KeepsScope]_adoptVars
    BY <1>1, <1>2, PTL DEF AdoptSpec
  <2> QED BY <2>1 DEF KeepsScope, AdoptInScope
<1>4. AdoptInv => MainBaselineTrue
  BY DEF AdoptInv
<1> QED
  BY <1>1, <1>3, <1>4, PTL DEF AdoptionTrue

-----------------------------------------------------------------------------
(* Telemetry: its record is of its own run, and the verdict of a finished run *)
(* stands.                                                                   *)

\* What RecordIsOfItsRun rests on: the sampler is this run's, the worker is
\* where the record says it is, and there is no verdict before the end.
RecordInv ==
  /\ \A s \in sampled : s.by = runNo
  /\ sampler # 0 => sampler = runNo
  /\ flags \cap Families \subseteq added
  /\ status = "finished" => /\ sampled # {} /\ sampler = 0
                            /\ \E t \in Terminals : outcome = {t}
  /\ status # "finished" => outcome = {}
  /\ wpc \in {"revalidating", "loading", "scanning"} => status = "started"
  /\ wpc = "finished" => status = "finished"

\* Before the first run there is nothing to keep apart.
LEMMA RecordInit == TelemetryInit => RecordInv
BY DEF TelemetryInit, RecordInv

\* A run that is finalized keeps its samples, or gets the baseline one, and
\* has one verdict.
LEMMA Finalizing ==
  ASSUME RecordInv, status # "finished", NEW t \in Terminals, FinalizedWith({t}),
         flags' \cap Families \subseteq added', wpc' \in {"idle", "finished"}
  PROVE  RecordInv'
<1>1. sampled' # {} /\ \A s \in sampled' : s.by = runNo'
  <2>1. CASE sampled = {}
    BY <2>1 DEF FinalizedWith
  <2>2. CASE sampled # {}
    BY <2>2 DEF RecordInv, FinalizedWith
  <2> QED BY <2>1, <2>2
<1>2. outcome' = {t} /\ status' = "finished" /\ sampler' = 0
  BY DEF RecordInv, FinalizedWith
<1> QED
  BY <1>1, <1>2 DEF RecordInv

\* A run that starts has no samples and no verdict, and flags no family.
LEMMA Starting ==
  ASSUME RecordInv, Start(detail), wpc' \in {"revalidating", "scanning"}
  PROVE  RecordInv'
<1>1. flags' \cap Families = {}
  BY DEF Start, Families, Unreset
<1>2. sampler' # 0 => sampler' = runNo'
  BY DEF Start
<1> QED
  BY <1>1, <1>2 DEF RecordInv, Start

\* What an exception or a cancelled revalidation leaves: the run that was
\* under way is aborted, a finished one stays as it is.
LEMMA Aborting ==
  ASSUME RecordInv, AbortUnfinished, wpc # "idle", wpc' = "idle"
  PROVE  RecordInv'
<1>1. CASE status = "started"
  <2>1. "cancelled" \in Terminals BY DEF Terminals
  <2>2. FinalizedWith({"cancelled"}) /\ UNCHANGED <<flags, added>>
    BY <1>1 DEF AbortUnfinished
  <2> QED BY <1>1, <2>1, <2>2, Finalizing DEF RecordInv
<1>2. CASE status # "started"
  BY <1>2 DEF AbortUnfinished, RecordInv
<1> QED BY <1>1, <1>2

\* Each step keeps the invariant.
LEMMA RecordStep == RecordInv /\ [TelemetryNext]_telemetryVars => RecordInv'
<1> SUFFICES ASSUME RecordInv, [TelemetryNext]_telemetryVars
             PROVE  RecordInv'
  OBVIOUS
<1>1. CASE BeginRevalidation
  BY <1>1, Starting DEF BeginRevalidation
<1>2. CASE RevalidationCancelled
  BY <1>2, Aborting DEF RevalidationCancelled
<1>3. CASE RevalidationDone
  BY <1>3 DEF RevalidationDone, RecordInv
<1>4. CASE BeginScan
  BY <1>4, Starting DEF BeginScan
<1>5. CASE ApplyDisplayed
  <2>1. "displayed" \notin Families /\ "kinds" \notin Families
    BY DEF Families
  <2> QED BY <1>5, <2>1 DEF ApplyDisplayed, RecordInv
<1>6. CASE Throw
  BY <1>6, Aborting DEF Throw
<1>7. CASE SampleOnce
  BY <1>7 DEF SampleOnce, RecordInv
<1>8. ASSUME NEW f \in Families \cup {"plans"}, Add(f) PROVE RecordInv'
  BY <1>8 DEF Add, RecordInv
<1>9. ASSUME NEW t \in Terminals, FinishScan(t) PROVE RecordInv'
  <2>1. status # "finished" /\ wpc' = "finished" /\ FinalizedWith({t})
    BY <1>9 DEF FinishScan, RecordInv
  <2>2. flags' \cap Families \subseteq added'
    BY <1>9 DEF FinishScan, RecordInv
  <2> QED BY <2>1, <2>2, Finalizing
<1>10. CASE UNCHANGED telemetryVars
  BY <1>10 DEF telemetryVars, RecordInv
<1> QED
  BY <1>1, <1>2, <1>3, <1>4, <1>5, <1>6, <1>7, <1>8, <1>9, <1>10 DEF TelemetryNext

\* The invariant says that a record is of its run: measured families are
\* flagged ones.
LEMMA RecordSaysSo == RecordInv => RecordIsOfItsRun
<1>1. MeasuredFamilies \subseteq flags
  BY DEF MeasuredFamilies
<1> QED BY <1>1 DEF RecordInv, RecordIsOfItsRun

\* No step of a finished run changes its verdict.
LEMMA VerdictStep ==
  ASSUME RecordInv, [TelemetryNext]_telemetryVars, status = "finished", runNo' = runNo,
         runNo \in Nat
  PROVE  outcome' = outcome /\ Cardinality(outcome) = 1
<1>1. Cardinality(outcome) = 1
  BY FS_Singleton DEF RecordInv
<1>2. ~Start(detail)
  BY DEF Start
<1>3. wpc \notin {"revalidating", "loading", "scanning"}
  BY DEF RecordInv
<1>4. CASE Throw
  <2>1. outcome' = outcome
    BY <1>4 DEF Throw, AbortUnfinished
  <2> QED BY <1>1, <2>1
<1>5. CASE ~Throw
  <2>1. outcome' = outcome
    BY <1>2, <1>3, <1>5
     DEF TelemetryNext, telemetryVars, BeginRevalidation, RevalidationCancelled, RevalidationDone,
         BeginScan, ApplyDisplayed, SampleOnce, Add, FinishScan
  <2> QED BY <1>1, <2>1
<1> QED BY <1>4, <1>5

\* The number of runs is a number.
LEMMA RunsCounted == TelemetrySpec => [](runNo \in Nat)
<1>1. TelemetryInit => runNo \in Nat
  BY DEF TelemetryInit
<1>2. runNo \in Nat /\ [TelemetryNext]_telemetryVars => (runNo \in Nat)'
  BY DEF TelemetryNext, telemetryVars, BeginRevalidation, RevalidationCancelled,
         RevalidationDone, BeginScan, ApplyDisplayed, Throw, SampleOnce, Add, FinishScan,
         Start, FinalizedWith, AbortUnfinished
<1> QED BY <1>1, <1>2, PTL DEF TelemetrySpec

\* For every number of scans a record is of its own run - no sample, no
\* measured family of an earlier one, no thread that could still change it -
\* and the verdict of a finished run stays until the next run starts
\* (TelemetryRecorder: start, abortUnfinished, finalize).
THEOREM RecordIsTrue == TelemetrySpec => RecordTrue
<1>1. TelemetrySpec => []RecordInv
  BY RecordInit, RecordStep, PTL DEF TelemetrySpec
<1>2. RecordInv /\ runNo \in Nat /\ [TelemetryNext]_telemetryVars
        => [(status = "finished" /\ runNo' = runNo)
              => outcome' = outcome /\ Cardinality(outcome) = 1]_telemetryVars
  BY VerdictStep
<1>3. TelemetrySpec => VerdictStands
  BY <1>1, <1>2, RunsCounted, PTL DEF TelemetrySpec, VerdictStands
<1> QED
  BY <1>1, <1>3, RecordSaysSo, PTL DEF RecordTrue

-----------------------------------------------------------------------------
(* Profile: what a scan takes from it was measured on the machine's GPU and   *)
(* is young enough, and scans that deviate are answered by a recalibration.   *)

Days == 0..MaxProfileDays
Rates == Rate \cup {NoRate}
Scan == [phase: {"idle", "calibrating", "running", "recalibrating"}, had: BOOLEAN,
         old: Rates, base: Rates, gpuOn: BOOLEAN, seen: File \cup {NoFile},
         live: Levels \cup {0}, began: Days]

\* The types, as far as they are needed.
Typed ==
  /\ gpu \in Machine /\ today \in Days /\ reuse \in BOOLEAN
  /\ file \in File \cup {NoFile}
  /\ scan \in [Engines -> Scan]
  /\ tracker \in [Engines -> [count: Nat, id: Machine]]
  /\ drift \in [Engines -> Nat]

\* A rate that a scan may take: it is of this GPU, and young enough for the
\* day the scan began.
Fit(rate, began) == rate # NoRate => rate.on = gpu /\ began <= rate.taken + MaxAge

\* The file says of a rate where and when it was measured.
FileSays == file # NoFile /\ file.rate # NoRate => file.rate.on = file.gpu /\ file.rate.taken = file.updated

\* What is true of an engine at any time, and of one that runs one scan.
EngineOK(e) ==
  /\ scan[e].began <= today
  /\ scan[e].phase = "idle" => scan[e].old = NoRate /\ scan[e].base = NoRate
  /\ scan[e].phase = "recalibrating" => scan[e].seen # NoFile
  /\ tracker[e].count < Repetitions
  /\ reuse => drift[e] <= tracker[e].count
  /\ ~reuse => /\ scan[e].phase # "idle" => tracker[e].count = 0
               /\ scan[e].phase # "recalibrating"
               /\ Fit(scan[e].old, scan[e].began) /\ Fit(scan[e].base, scan[e].began)

ProfileInv ==
  /\ Typed
  /\ ~reuse => FileSays
  /\ \A e \in Engines : EngineOK(e)

\* The numbers of the assumption, one by one.
LEMMA Numbers == MaxAge \in Nat /\ MaxProfileDays \in Nat /\ Repetitions \in Nat /\ Repetitions >= 2
BY ProfileAssumption

\* An engine at rest and a new tracker have their types.
LEMMA AtRest == Resting \in Scan /\ FreshTracker \in [count: Nat, id: Machine]
BY Numbers DEF Resting, Scan, Rates, Days, FreshTracker, Machine

\* At first nothing is stored and nobody scans.
LEMMA ProfileInitially == ProfileInit => ProfileInv
<1> SUFFICES ASSUME ProfileInit PROVE ProfileInv
  OBVIOUS
<1>1. Typed
  BY AtRest, Numbers DEF ProfileInit, Typed, Days
<1>2. ASSUME NEW e \in Engines PROVE EngineOK(e)
  BY Numbers DEF ProfileInit, EngineOK, Resting, FreshTracker, Fit
<1>3. FileSays
  BY DEF ProfileInit, FileSays
<1> QED BY <1>1, <1>2, <1>3 DEF ProfileInv

\* What is loaded and found to match is a rate to take.
LEMMA EstimateFits ==
  ASSUME ProfileInv, ~reuse
  PROVE  Fit(Estimate(file), today)
<1> SUFFICES ASSUME Classify(file) = "match", file.rate # NoRate
             PROVE  file.rate.on = gpu /\ today <= file.rate.taken + MaxAge
  BY DEF Estimate, Fit
<1>1. file # NoFile /\ file.gpu = gpu /\ ~(today > file.updated + MaxAge)
  BY DEF Classify
<1>2. file \in File /\ today \in Nat
  BY <1>1, Numbers DEF ProfileInv, Typed, Days
<1>3. file.updated \in Nat
  BY <1>2, Numbers DEF File
<1>4. file.rate.on = file.gpu /\ file.rate.taken = file.updated
  BY <1>1 DEF ProfileInv, FileSays
<1> QED BY <1>1, <1>2, <1>3, <1>4, Numbers

\* What is loaded is a rate or none.
LEMMA EstimateTyped == ASSUME Typed PROVE Estimate(file) \in Rates
<1>1. CASE Classify(file) = "match"
  <2>1. file # NoFile
    BY <1>1 DEF Classify
  <2> QED BY <1>1, <2>1 DEF Estimate, Typed, File, Rates
<1>2. CASE Classify(file) # "match"
  BY <1>2 DEF Estimate, Rates
<1> QED BY <1>1, <1>2

\* A scan begins.
LEMMA BeginKeeps ==
  ASSUME ProfileInv, NEW e \in Engines, NEW gpuOn \in BOOLEAN, BeginProfiledScan(e, gpuOn)
  PROVE  ProfileInv'
<1> DEFINE calibrates == NeedsCalibration(file, gpuOn)
           new == [Resting EXCEPT !.phase = IF calibrates THEN "calibrating" ELSE "running",
                                  !.had = file # NoFile, !.gpuOn = gpuOn, !.began = today,
                                  !.old = Estimate(file),
                                  !.base = IF calibrates THEN NoRate ELSE Estimate(file)]
<1>1. /\ UNCHANGED <<gpu, today, file, reuse, drift>>
      /\ tracker' = IF reuse THEN tracker ELSE [tracker EXCEPT ![e] = FreshTracker]
      /\ scan' = [scan EXCEPT ![e] = new]
  BY DEF BeginProfiledScan
<1>2. new \in Scan
  BY EstimateTyped DEF ProfileInv, Typed, Resting, Scan, Rates
<1>3. /\ new.phase \in {"calibrating", "running"} /\ new.began = today
      /\ new.old = Estimate(file) /\ new.base \in {NoRate, Estimate(file)}
  BY DEF Resting
<1> HIDE DEF new
<1>4. Typed'
  BY <1>1, <1>2, AtRest DEF ProfileInv, Typed
<1>5. ASSUME NEW d \in Engines PROVE EngineOK(d)'
  <2>1. CASE d = e
    <3>1. scan'[d] = new
      BY <1>1, <2>1 DEF ProfileInv, Typed
    <3>2. /\ tracker'[d].count < Repetitions /\ (~reuse => tracker'[d].count = 0)
          /\ reuse => drift'[d] <= tracker'[d].count
      BY <1>1, <2>1, Numbers DEF ProfileInv, Typed, EngineOK, FreshTracker
    <3>3. today <= today
      BY Numbers DEF ProfileInv, Typed, Days
    <3>4. ~reuse => /\ new.old # NoRate => new.old.on = gpu' /\ new.began <= new.old.taken + MaxAge
                    /\ new.base # NoRate => new.base.on = gpu' /\ new.began <= new.base.taken + MaxAge
      BY <1>1, <1>3, EstimateFits DEF Fit
    <3> QED BY <1>1, <1>3, <3>1, <3>2, <3>3, <3>4 DEF EngineOK, Fit
  <2>2. CASE d # e
    <3>1. scan'[d] = scan[d] /\ tracker'[d] = tracker[d]
      BY <1>1, <2>2 DEF ProfileInv, Typed
    <3> QED BY <1>1, <3>1 DEF ProfileInv, EngineOK, Fit
  <2> QED BY <2>1, <2>2
<1>6. ~reuse' => FileSays'
  BY <1>1 DEF ProfileInv, FileSays
<1> QED BY <1>4, <1>5, <1>6 DEF ProfileInv

\* A scan is calibrated.
LEMMA CalibrateKeeps ==
  ASSUME ProfileInv, NEW e \in Engines, NEW found, NEW level \in Levels, Calibrate(e, found, level)
  PROVE  ProfileInv'
<1> DEFINE measured == [level |-> level, on |-> gpu, taken |-> today]
           rate == IF found = "both" THEN measured ELSE NoRate
           complete == found = "both" \/ (found = "cpu" /\ ~scan[e].had)
           new == [gpu |-> gpu, rate |-> rate, updated |-> today]
           base == IF complete THEN rate ELSE scan[e].old
<1>1. /\ UNCHANGED <<gpu, today, tracker, reuse, drift>>
      /\ file' \in {new, file, NoFile}
      /\ scan' = [scan EXCEPT ![e].phase = "running", ![e].base = base]
      /\ scan[e].phase = "calibrating"
  BY DEF Calibrate, Saved
<1>2. scan[e] \in Scan /\ gpu \in Machine /\ today \in Days
  BY DEF ProfileInv, Typed
<1>3. rate \in Rates /\ (rate # NoRate => rate.on = gpu /\ rate.taken = today)
  BY <1>2 DEF Rates, Rate, Days
<1>4. base \in Rates
  BY <1>2, <1>3 DEF Scan
<1>5. new \in File /\ (new.rate # NoRate => new.rate.on = new.gpu /\ new.rate.taken = new.updated)
  BY <1>2, <1>3 DEF File, Rates, Days
<1>6. ~reuse => Fit(base, scan[e].began)
  <2>1. scan[e].began <= today /\ scan[e].began \in Nat /\ today \in Nat
    BY <1>2, Numbers DEF ProfileInv, EngineOK, Scan, Days
  <2>2. rate # NoRate => rate.on = gpu /\ scan[e].began <= rate.taken + MaxAge
    BY <1>3, <2>1, Numbers
  <2>3. ~reuse => Fit(scan[e].old, scan[e].began)
    BY DEF ProfileInv, EngineOK
  <2> QED BY <2>2, <2>3 DEF Fit
<1> HIDE DEF base, new
<1>7. scan'[e] = [scan[e] EXCEPT !.phase = "running", !.base = base]
      /\ \A d \in Engines : d # e => scan'[d] = scan[d]
  BY <1>1 DEF ProfileInv, Typed
<1>8. scan'[e] \in Scan
  BY <1>2, <1>4, <1>7 DEF Scan
<1>9. Typed'
  <2>1. scan' \in [Engines -> Scan]
    BY <1>1, <1>7, <1>8 DEF ProfileInv, Typed
  <2>2. file' \in File \cup {NoFile}
    BY <1>1, <1>5 DEF ProfileInv, Typed
  <2> QED BY <1>1, <2>1, <2>2 DEF ProfileInv, Typed
<1>10. ASSUME NEW d \in Engines PROVE EngineOK(d)'
  <2>1. CASE d = e
    <3>1. /\ scan'[d].phase = "running" /\ scan'[d].base = base
          /\ scan'[d].old = scan[d].old /\ scan'[d].began = scan[d].began
      BY <1>2, <1>7, <2>1 DEF Scan
    <3> QED BY <1>1, <1>6, <2>1, <3>1 DEF ProfileInv, EngineOK, Fit
  <2>2. CASE d # e
    BY <1>1, <1>7, <2>2 DEF ProfileInv, EngineOK, Fit
  <2> QED BY <2>1, <2>2
<1>11. ~reuse' => FileSays'
  BY <1>1, <1>5 DEF ProfileInv, FileSays
<1> QED BY <1>9, <1>10, <1>11 DEF ProfileInv

\* A scan that leaves the engine as it was, but for the tracker.
LEMMA RestKeeps ==
  ASSUME ProfileInv, NEW e \in Engines, UNCHANGED <<gpu, today, reuse>>,
         scan' = [scan EXCEPT ![e] = Resting],
         tracker' \in [Engines -> [count: Nat, id: Machine]], drift' \in [Engines -> Nat],
         tracker'[e].count < Repetitions, reuse => drift'[e] <= tracker'[e].count,
         \A d \in Engines : d # e => tracker'[d] = tracker[d] /\ drift'[d] = drift[d],
         file' \in File \cup {NoFile}, ~reuse => FileSays'
  PROVE  ProfileInv'
<1>1. Typed'
  BY AtRest DEF ProfileInv, Typed
<1>2. ASSUME NEW d \in Engines PROVE EngineOK(d)'
  <2>1. CASE d = e
    <3>1. scan'[d] = Resting
      BY <2>1 DEF ProfileInv, Typed
    <3>2. 0 <= today
      BY Numbers DEF ProfileInv, Typed, Days
    <3> QED BY <2>1, <3>1, <3>2 DEF EngineOK, Fit, Resting
  <2>2. CASE d # e
    <3>1. scan'[d] = scan[d]
      BY <2>2 DEF ProfileInv, Typed
    <3> QED BY <2>2, <3>1 DEF ProfileInv, EngineOK, Fit
  <2> QED BY <2>1, <2>2
<1> QED BY <1>1, <1>2 DEF ProfileInv
\* A completed scan feeds the tracker.
LEMMA FeedKeeps ==
  ASSUME ProfileInv, NEW e \in Engines, NEW live \in Levels, EndFed(e, live)
  PROVE  ProfileInv'
<1> DEFINE deviates == live # scan[e].base.level
           n == Deviations(tracker[e], file.gpu, deviates)
           fires == n >= Repetitions
<1>1. /\ UNCHANGED <<gpu, today, file, reuse>>
      /\ file # NoFile /\ scan[e].phase = "running"
      /\ tracker' = [tracker EXCEPT ![e] = Fed(tracker[e], file.gpu, deviates)]
      /\ scan' = [scan EXCEPT ![e] = IF ~fires THEN Resting
                    ELSE [scan[e] EXCEPT !.phase = "recalibrating", !.seen = file, !.live = live]]
      /\ drift' = [drift EXCEPT ![e] =
                     IF ~deviates \/ fires THEN 0
                     ELSE (IF tracker[e].id = file.gpu \/ ~reuse THEN drift[e] ELSE 0) + 1]
  BY DEF EndFed
<1>2. /\ scan[e] \in Scan /\ tracker[e] \in [count: Nat, id: Machine] /\ drift[e] \in Nat
      /\ file \in File /\ file.gpu \in Machine
  BY <1>1 DEF ProfileInv, Typed, File
<1>3. /\ n \in Nat
      /\ n > 0 => deviates /\ n = (IF tracker[e].id = file.gpu THEN tracker[e].count ELSE 0) + 1
      /\ deviates => n = (IF tracker[e].id = file.gpu THEN tracker[e].count ELSE 0) + 1
  BY <1>2 DEF Deviations
<1>4. Fed(tracker[e], file.gpu, deviates) = [count |-> IF fires THEN 0 ELSE n, id |-> file.gpu]
  BY DEF Fed
<1>5. /\ tracker' \in [Engines -> [count: Nat, id: Machine]]
      /\ tracker'[e].count = IF fires THEN 0 ELSE n
      /\ \A d \in Engines : d # e => tracker'[d] = tracker[d]
  <2> HIDE DEF n
  <2>1. [count |-> IF fires THEN 0 ELSE n, id |-> file.gpu] \in [count: Nat, id: Machine]
    BY <1>2, <1>3
  <2> QED BY <1>1, <1>4, <2>1 DEF ProfileInv, Typed
<1> HIDE DEF n
<1>6. /\ drift'[e] = IF ~deviates \/ fires THEN 0
                     ELSE (IF tracker[e].id = file.gpu \/ ~reuse THEN drift[e] ELSE 0) + 1
      /\ drift' \in [Engines -> Nat]
      /\ \A d \in Engines : d # e => drift'[d] = drift[d]
  BY <1>1, <1>2 DEF ProfileInv, Typed
<1>7. tracker'[e].count < Repetitions
  BY <1>3, <1>5, Numbers
<1>8. reuse => drift'[e] <= tracker'[e].count
  <2>1. reuse => drift[e] <= tracker[e].count
    BY DEF ProfileInv, EngineOK
  <2> QED BY <1>2, <1>3, <1>5, <1>6, <2>1
<1>9. ~reuse' => FileSays'
  BY <1>1 DEF ProfileInv, FileSays
<1>10. CASE ~fires
  BY <1>1, <1>5, <1>6, <1>7, <1>8, <1>9, <1>10, RestKeeps DEF ProfileInv, Typed
<1>11. CASE fires
  \* Only an engine that runs many scans gets here.
  <2>1. reuse
    <3>1. ~reuse => tracker[e].count = 0
      BY <1>1 DEF ProfileInv, EngineOK
    <3> QED BY <1>3, <1>11, <3>1, Numbers
  <2>2. /\ scan'[e] = [scan[e] EXCEPT !.phase = "recalibrating", !.seen = file, !.live = live]
        /\ \A d \in Engines : d # e => scan'[d] = scan[d]
    BY <1>1, <1>11 DEF ProfileInv, Typed
  <2>3. scan'[e] \in Scan
    BY <1>2, <2>2 DEF Scan
  <2>4. scan' \in [Engines -> Scan]
    BY <1>1, <2>2, <2>3 DEF ProfileInv, Typed
  <2>5. Typed'
    BY <1>1, <1>5, <1>6, <2>4 DEF ProfileInv, Typed
  <2>6. ASSUME NEW d \in Engines PROVE EngineOK(d)'
    <3>1. CASE d = e
      <4>1. /\ scan'[d].phase = "recalibrating" /\ scan'[d].seen = file
            /\ scan'[d].began = scan[d].began
        BY <1>2, <2>2, <3>1 DEF Scan
      <4> QED BY <1>1, <1>7, <1>8, <2>1, <3>1, <4>1 DEF ProfileInv, EngineOK
    <3>2. CASE d # e
      BY <1>1, <1>5, <1>6, <2>2, <3>2 DEF ProfileInv, EngineOK, Fit
    <3> QED BY <3>1, <3>2
  <2> QED BY <1>1, <2>1, <2>5, <2>6 DEF ProfileInv
<1> QED BY <1>10, <1>11

\* A recalibration writes what it has seen, of today, or nothing.
LEMMA RecalibrateKeeps ==
  ASSUME ProfileInv, NEW e \in Engines, NEW found, NEW level \in Levels, Recalibrate(e, found, level)
  PROVE  ProfileInv'
<1> DEFINE rate == IF level = scan[e].live THEN [level |-> level, on |-> gpu, taken |-> today]
                   ELSE scan[e].seen.rate
           new == [scan[e].seen EXCEPT !.rate = rate, !.updated = today]
<1>1. /\ UNCHANGED <<gpu, today, tracker, reuse, drift>>
      /\ scan[e].phase = "recalibrating"
      /\ scan' = [scan EXCEPT ![e] = Resting]
      /\ file' \in {new, file, NoFile}
  BY DEF Recalibrate, Saved
<1>2. reuse /\ scan[e].seen \in File /\ gpu \in Machine /\ today \in Days /\ file \in File \cup {NoFile}
  BY <1>1 DEF ProfileInv, EngineOK, Typed, Scan
<1>3. rate \in Rate \cup {NoRate}
  BY <1>2 DEF Rate, File, Days
<1>4. new \in File
  <2> HIDE DEF rate
  <2> QED BY <1>2, <1>3 DEF File, Days
<1> HIDE DEF new
<1>5. file' \in File \cup {NoFile}
  BY <1>1, <1>2, <1>4
<1>6. /\ tracker' \in [Engines -> [count: Nat, id: Machine]] /\ drift' \in [Engines -> Nat]
      /\ tracker'[e].count < Repetitions /\ (reuse => drift'[e] <= tracker'[e].count)
  BY <1>1 DEF ProfileInv, Typed, EngineOK
<1> QED BY <1>1, <1>2, <1>5, <1>6, RestKeeps

\* A scan that is stopped, or that a kill ends.
LEMMA EndKeeps ==
  ASSUME ProfileInv, NEW e \in Engines, EndUnfed(e) \/ KillScan(e)
  PROVE  ProfileInv'
<1>1. /\ UNCHANGED <<gpu, today, reuse>> /\ scan' = [scan EXCEPT ![e] = Resting]
      /\ file' \in {file, NoFile} /\ drift' = [drift EXCEPT ![e] = 0]
      /\ tracker' \in {tracker, [tracker EXCEPT ![e] = FreshTracker]}
  BY DEF EndUnfed, KillScan
<1>2. drift' \in [Engines -> Nat] /\ drift'[e] = 0 /\ \A d \in Engines : d # e => drift'[d] = drift[d]
  BY <1>1 DEF ProfileInv, Typed
<1>3. tracker' \in [Engines -> [count: Nat, id: Machine]] /\ \A d \in Engines : d # e => tracker'[d] = tracker[d]
  BY <1>1, AtRest DEF ProfileInv, Typed
<1>4. tracker'[e].count \in Nat /\ tracker'[e].count < Repetitions
  <2>1. tracker[e] \in [count: Nat, id: Machine] /\ tracker[e].count < Repetitions
    BY DEF ProfileInv, Typed, EngineOK
  <2>2. CASE tracker' = tracker
    BY <2>1, <2>2
  <2>3. CASE tracker' = [tracker EXCEPT ![e] = FreshTracker]
    <3>1. tracker'[e] = FreshTracker
      BY <2>3 DEF ProfileInv, Typed
    <3> QED BY <3>1, Numbers DEF FreshTracker
  <2> QED BY <1>1, <2>2, <2>3
<1>5. file' \in File \cup {NoFile} /\ (~reuse => FileSays')
  BY <1>1 DEF ProfileInv, Typed, FileSays
<1>6. drift'[e] <= tracker'[e].count
  BY <1>2, <1>4
<1> QED BY <1>1, <1>2, <1>3, <1>4, <1>5, <1>6, RestKeeps

\* A day passes.
LEMMA DayKeeps == ASSUME ProfileInv, DayPasses PROVE ProfileInv'
<1>1. UNCHANGED <<gpu, file, scan, tracker, reuse, drift>> /\ today' = today + 1 /\ today < MaxProfileDays
  BY DEF DayPasses
<1>2. today \in Nat /\ today' \in Days
  BY <1>1, Numbers DEF ProfileInv, Typed, Days
<1>3. ASSUME NEW e \in Engines PROVE EngineOK(e)'
  <2>1. scan[e].began \in Nat /\ scan[e].began <= today
    BY Numbers DEF ProfileInv, Typed, EngineOK, Scan, Days
  <2>2. scan'[e].began <= today'
    BY <1>1, <1>2, <2>1
  <2> QED BY <1>1, <2>2 DEF ProfileInv, EngineOK, Fit
<1> QED BY <1>1, <1>2, <1>3 DEF ProfileInv, Typed, FileSays

\* The GPU is changed while nobody scans, so that nobody holds a rate.
LEMMA ChangeKeeps == ASSUME ProfileInv, NEW g \in Machine, ChangeGpu(g) PROVE ProfileInv'
<1>1. UNCHANGED <<today, file, scan, tracker, reuse, drift>> /\ gpu' = g
      /\ \A e \in Engines : scan[e].phase = "idle"
  BY DEF ChangeGpu
<1>2. ASSUME NEW e \in Engines PROVE EngineOK(e)'
  BY <1>1 DEF ProfileInv, EngineOK, Fit
<1> QED BY <1>1, <1>2 DEF ProfileInv, Typed, FileSays

\* Each step keeps the invariant.
LEMMA ProfileStep == ProfileInv /\ [ProfileNext]_profileVars => ProfileInv'
<1> SUFFICES ASSUME ProfileInv, [ProfileNext]_profileVars
             PROVE  ProfileInv'
  OBVIOUS
<1>1. CASE UNCHANGED profileVars
  <2>1. UNCHANGED <<gpu, today, file, scan, tracker, reuse, drift>>
    BY <1>1 DEF profileVars
  <2>2. ASSUME NEW e \in Engines PROVE EngineOK(e)'
    BY <2>1 DEF ProfileInv, EngineOK, Fit
  <2> QED BY <2>1, <2>2 DEF ProfileInv, Typed, FileSays
<1>2. ASSUME NEW e \in Engines, NEW gpuOn \in BOOLEAN, BeginProfiledScan(e, gpuOn)
      PROVE  ProfileInv'
  BY <1>2, BeginKeeps
<1>3. ASSUME NEW e \in Engines, NEW found, NEW level \in Levels,
             Calibrate(e, found, level) \/ Recalibrate(e, found, level)
      PROVE  ProfileInv'
  BY <1>3, CalibrateKeeps, RecalibrateKeeps
<1>4. ASSUME NEW e \in Engines, EndUnfed(e) \/ KillScan(e) PROVE ProfileInv'
  BY <1>4, EndKeeps
<1>5. ASSUME NEW e \in Engines, NEW live \in Levels, EndFed(e, live) PROVE ProfileInv'
  BY <1>5, FeedKeeps
<1>6. CASE DayPasses
  BY <1>6, DayKeeps
<1>7. ASSUME NEW g \in Machine, ChangeGpu(g) PROVE ProfileInv'
  BY <1>7, ChangeKeeps
<1> QED
  BY <1>1, <1>2, <1>3, <1>4, <1>5, <1>6, <1>7 DEF ProfileNext

\* For any number of engines, GPUs, levels, days and changes: the rates a scan
\* takes were measured on the GPU the machine has and are young enough, and no
\* run of deviating scans is as long as the policy's without a recalibration,
\* for an engine that runs many (MediaSearchEngine::scan, finishScan,
\* DeviationTracker::feed).
THEOREM ProfileIsTrue == ProfileSpec => []ProfileTrue
<1>1. ProfileSpec => []ProfileInv
  BY ProfileInitially, ProfileStep, PTL DEF ProfileSpec
<1>2. ProfileInv => EstimateSound
  BY DEF ProfileInv, EngineOK, Fit, EstimateSound
<1>3. ProfileInv => TrackerFires
  <2> SUFFICES ASSUME ProfileInv, reuse, NEW e \in Engines PROVE drift[e] < Repetitions
    BY DEF TrackerFires
  <2>1. drift[e] \in Nat /\ tracker[e].count \in Nat
    BY DEF ProfileInv, Typed
  <2>2. drift[e] <= tracker[e].count /\ tracker[e].count < Repetitions
    BY DEF ProfileInv, EngineOK
  <2> QED BY <2>1, <2>2, Numbers
<1> QED BY <1>1, <1>2, <1>3, PTL DEF ProfileTrue

-----------------------------------------------------------------------------
(* BenchmarkJournal: what a crash leaves is read as it was written.            *)

\* The records of a run.
Begun(r)      == Record("run_started", r, NoCase, "")
Mode(r, c, k) == Record("mode_result", r, c, CaseModes[k])
Commit(r, c)  == Record("case_complete", r, c, "")
EndOf(r, ev)  == Record(ev, r, NoCase, "")

NModes == Len(CaseModes)
Ends   == {"run_finished", "run_cancelled"}

\* What a record and a line may be made of.
Events  == {"run_started", "mode_result", "case_complete"} \cup Ends
Whats   == {""} \cup {CaseModes[k] : k \in 1..NModes}
Records == {Record(ev, r, c, what) : ev \in Events, r \in Runs, c \in 0..NCases, what \in Whats}
Field   == {l[k] : l \in Records \cup {Garbage}, k \in 1..4}

\* The ends that tell the truth of a run.
TrueEnd(r, l) ==
    \/ l = EndOf(r, "run_finished") /\ caseNo[r] = NCases /\ r \notin anyCancelled
    \/ l = EndOf(r, "run_cancelled") /\ r \in cancelAsked \cup abandoned

\* What a run has been given to write so far, be it written, waiting or lost.
Given(r, l) ==
    \/ l = Begun(r) /\ session[r] \notin {"new", "busy"}
    \/ \E c \in 1..caseNo[r] : \E k \in 1..NModes : l = Mode(r, c, k)
    \/ \E c \in 1..caseNo[r] : l = Commit(r, c)
    \/ TrueEnd(r, l) /\ session[r] \in {"ending", "closed", "dead"}

JournalTypes ==
    /\ JournalTypeOK
    /\ lines \in Seq(Seq(Field)) /\ tail \in Seq(Field)
    /\ inserted # {} => Len(tail) = 4
    /\ todo \in [Runs -> Seq(Records)] /\ caseNo \in [Runs -> 0..NCases]
    /\ anyCancelled \subseteq cancelAsked
    /\ \A r \in Runs : session[r] \in {"new", "busy"} => caseNo[r] = 0 /\ todo[r] = <<>>

\* Only the run that holds the lock writes.
OneWriter ==
    /\ \A r \in Runs : Running(r) <=> suiteLock = r
    /\ \A r \in inserted : Running(r) /\ todo[r] # <<>>

\* What waits is the rest of a case, modes and then the commit, or one record.
Waiting(r) ==
    /\ \A i \in 1..Len(todo[r]) : Given(r, todo[r][i])
    /\ \A i, j \in 1..Len(todo[r]) : todo[r][i] = todo[r][j] => i = j
    /\ \A i \in 1..Len(todo[r]) : i < Len(todo[r]) =>
          /\ \E k \in 1..NModes : todo[r][i] = Mode(r, caseNo[r], k)
          /\ Ev(todo[r][Len(todo[r])]) = "case_complete"
    /\ \A i \in 1..Len(todo[r]) :
          /\ Ev(todo[r][i]) = "mode_result" => i < Len(todo[r])
          /\ Ev(todo[r][i]) = "case_complete" => todo[r][i] = Commit(r, caseNo[r])

InLines(l)   == \E i \in 1..Len(lines) : lines[i] = l
InTodo(r, l) == \E i \in 1..Len(todo[r]) : todo[r][i] = l

\* The line that is being written is a record's.
TailTrue ==
    /\ suiteLock # NoRun /\ inserted = {} => tail = <<>>
    /\ \A r \in inserted : tail = todo[r][1]

\* Each line was given to a run, stands there once and waits no more.
LinesGiven ==
    /\ \A i \in 1..Len(lines) : \E r \in Runs : Given(r, lines[i])
    /\ \A i, j \in 1..Len(lines) : lines[i] = lines[j] => i = j
    /\ \A r \in Runs : \A i \in 1..Len(lines), j \in 1..Len(todo[r]) : lines[i] # todo[r][j]

\* The records of a case are in the journal or wait.
CasesKept ==
    \A r \in Runs : \A c \in 1..caseNo[r] :
        /\ InLines(Commit(r, c)) \/ InTodo(r, Commit(r, c))
        /\ \A k \in 1..NModes : InLines(Mode(r, c, k)) \/ InTodo(r, Mode(r, c, k))

\* A commit stands behind its modes.
ModesFirst ==
    \A i, j \in 1..Len(lines) : \A r \in Runs : \A c \in 1..NCases : \A k \in 1..NModes :
        lines[i] = Commit(r, c) /\ lines[j] = Mode(r, c, k) => j < i

\* An end stands behind all records of its run.
EndsLast ==
    \A i \in 1..Len(lines) : \A r \in Runs : RunOf(lines[i]) = r /\ Ev(lines[i]) \in Ends =>
        /\ todo[r] = <<>>
        /\ \A j \in 1..Len(lines) : i < j => RunOf(lines[j]) # r

\* As long as nothing was appended to a cut line.
Faithful == TailTrue /\ LinesGiven /\ CasesKept /\ ModesFirst /\ EndsLast

\* A summary claims no more than the journal holds.
Backed(s) ==
    s.run # NoRun =>
        /\ s.run \in Runs /\ s.committed \in Nat /\ s.committed <= Cardinality(Committed(lines, s.run))
        /\ s.finished => Terminal(lines, s.run) # {}

JournalInv ==
    /\ JournalTypes /\ OneWriter /\ \A r \in Runs : Waiting(r)
    /\ ~glued => Faithful
    /\ Backed(summary) /\ Backed(recovery)

\* The fields of a record, and no two records are the same.
LEMMA RecordFacts ==
    ASSUME NEW ev, NEW r, NEW c, NEW what
    PROVE  LET l == Record(ev, r, c, what)
           IN  Ev(l) = ev /\ Id(l) = <<ev, r, c, what>> /\ RunOf(l) = r /\ CaseOf(l) = c
BY DEF Record, Ev, Id, RunOf, CaseOf

\* Two modes with one name are one mode.
LEMMA ModesApart ==
    /\ NModes \in Nat \ {0} /\ \A k \in 1..NModes : CaseModes[k] \in STRING
    /\ \A k, n \in 1..NModes : CaseModes[k] = CaseModes[n] => k = n
BY JournalAssumption DEF NModes, IsInjective

\* The records of a run, field by field.
LEMMA BegunRecord ==
    ASSUME NEW r
    PROVE  Ev(Begun(r)) = "run_started" /\ RunOf(Begun(r)) = r
BY DEF Begun, Record, Ev, RunOf

\* The end of a run.
LEMMA EndRecord ==
    ASSUME NEW r, NEW ev
    PROVE  Ev(EndOf(r, ev)) = ev /\ RunOf(EndOf(r, ev)) = r
BY DEF EndOf, Record, Ev, RunOf

\* A commit.
LEMMA CommitRecord ==
    ASSUME NEW r, NEW c
    PROVE  Ev(Commit(r, c)) = "case_complete" /\ RunOf(Commit(r, c)) = r /\ CaseOf(Commit(r, c)) = c
BY DEF Commit, Record, Ev, RunOf, CaseOf

\* A mode.
LEMMA ModeRecord ==
    ASSUME NEW r, NEW c, NEW k
    PROVE  Ev(Mode(r, c, k)) = "mode_result" /\ RunOf(Mode(r, c, k)) = r /\ CaseOf(Mode(r, c, k)) = c
BY DEF Mode, Record, Ev, RunOf, CaseOf

\* No two modes and no two commits have the same record.
LEMMA RecordsApart ==
    ASSUME NEW r, NEW c, NEW d
    PROVE  /\ Commit(r, c) = Commit(r, d) => c = d
           /\ \A k, n \in 1..NModes : Mode(r, c, k) = Mode(r, d, n) => c = d /\ k = n
<1>1. Commit(r, c) = Commit(r, d) => c = d
  BY BegunRecord, EndRecord, CommitRecord, ModeRecord
<1>2. ASSUME NEW k \in 1..NModes, NEW n \in 1..NModes, Mode(r, c, k) = Mode(r, d, n) PROVE c = d /\ k = n
  <2>1. c = d
    BY <1>2 DEF Mode, Record
  <2>2. CaseModes[k] = CaseModes[n]
    <3>1. Id(Mode(r, c, k)) = <<"mode_result", r, c, CaseModes[k]>> /\ Id(Mode(r, d, n)) = <<"mode_result", r, d, CaseModes[n]>>
      BY RecordFacts DEF Mode
    <3> QED BY <1>2, <3>1
  <2> QED BY <2>1, <2>2, ModesApart
<1> QED BY <1>1, <1>2

\* A record tells its event and its run, and its id tells all of it.
LEMMA GivenFacts ==
    ASSUME NEW r, NEW l, Given(r, l)
    PROVE  /\ Ev(l) \in Events /\ RunOf(l) = r
           /\ l = Record(Id(l)[1], Id(l)[2], Id(l)[3], Id(l)[4])
           /\ Ev(l) = "run_started" => l = Begun(r)
           /\ Ev(l) = "mode_result" => \E c \in 1..caseNo[r] : \E k \in 1..NModes : l = Mode(r, c, k)
           /\ Ev(l) = "case_complete" => \E c \in 1..caseNo[r] : l = Commit(r, c)
           /\ Ev(l) \in Ends => TrueEnd(r, l) /\ session[r] \in {"ending", "closed", "dead"}
<1>1. \E ev, c, what : l = Record(ev, r, c, what)
  BY DEF Given, TrueEnd, Begun, Commit, Mode, EndOf
<1>2. l = Record(Id(l)[1], Id(l)[2], Id(l)[3], Id(l)[4]) /\ RunOf(l) = r
  BY <1>1 DEF Record, Id, RunOf
<1>3. CASE l = Begun(r)
  BY <1>2, <1>3, BegunRecord, EndRecord, CommitRecord, ModeRecord DEF Events, Ends
<1>4. CASE \E c \in 1..caseNo[r] : \E k \in 1..NModes : l = Mode(r, c, k)
  <2>1. Ev(l) = "mode_result"
    BY <1>4 DEF Mode, Record, Ev
  <2> QED BY <1>2, <1>4, <2>1 DEF Events, Ends
<1>5. CASE \E c \in 1..caseNo[r] : l = Commit(r, c)
  BY <1>2, <1>5, BegunRecord, EndRecord, CommitRecord, ModeRecord DEF Events, Ends
<1>6. CASE TrueEnd(r, l) /\ session[r] \in {"ending", "closed", "dead"}
  BY <1>2, <1>6, BegunRecord, EndRecord, CommitRecord, ModeRecord DEF Events, Ends, TrueEnd
<1> QED BY <1>3, <1>4, <1>5, <1>6 DEF Given

\* Two records with one id are one record.
LEMMA SameId ==
    ASSUME NEW r, NEW q, NEW l, NEW m, Given(r, l), Given(q, m), Id(l) = Id(m)
    PROVE  l = m
BY GivenFacts

\* What is made of the parts of a record is a record.
LEMMA IsARecord ==
    ASSUME NEW ev \in Events, NEW r \in Runs, NEW c \in 0..NCases, NEW what \in Whats
    PROVE  Record(ev, r, c, what) \in Records
BY DEF Records

\* Records are four fields long.
LEMMA RecordsAreLines ==
    ASSUME NEW l \in Records
    PROVE  l \in Seq(Field) /\ Len(l) = 4
<1>2. PICK ev \in Events, r \in Runs, c \in 0..NCases, what \in Whats : l = <<ev, <<ev, r, c, what>>, r, c>>
  BY DEF Records, Record
<1>3. l[1] = ev /\ l[2] = <<ev, r, c, what>> /\ l[3] = r /\ l[4] = c
  BY <1>2
<1>4. \A k \in 1..4 : l[k] \in Field
  BY DEF Field
<1>5. ev \in Field /\ <<ev, r, c, what>> \in Field /\ r \in Field /\ c \in Field
  BY <1>3, <1>4
<1> QED BY <1>2, <1>5

\* The first fields of a line, and those after them.
LEMMA Parts ==
    ASSUME NEW S, NEW s \in Seq(S), NEW n \in Nat, Len(s) = n, NEW k \in 0..n
    PROVE  /\ SubSeq(s, 1, k) \in Seq(S) /\ Len(SubSeq(s, 1, k)) = k
           /\ SubSeq(s, k + 1, n) \in Seq(S) /\ Len(SubSeq(s, k + 1, n)) = n - k
           /\ k = 0 => SubSeq(s, k + 1, n) = s
<1>1. \A i \in 1..n : s[i] \in S
  BY ElementOfSeq
<1>2. SubSeq(s, 1, k) \in Seq(S) /\ Len(SubSeq(s, 1, k)) = IF 1 <= k THEN k - 1 + 1 ELSE 0
  <2>1. \A i \in 1..k : s[i] \in S
    BY <1>1
  <2>2. 1 \in Int /\ k \in Int
    OBVIOUS
  <2> QED BY <2>1, <2>2, SubSeqProperties
<1>3. /\ SubSeq(s, k + 1, n) \in Seq(S)
      /\ Len(SubSeq(s, k + 1, n)) = IF k + 1 <= n THEN n - (k + 1) + 1 ELSE 0
      /\ \A i \in 1..n - (k + 1) + 1 : SubSeq(s, k + 1, n)[i] = s[k + 1 + i - 1]
  <2>1. \A i \in k + 1..n : s[i] \in S
    BY <1>1
  <2>2. k + 1 \in Int /\ n \in Int
    OBVIOUS
  <2> QED BY <2>1, <2>2, SubSeqProperties
<1>4. ASSUME k = 0 PROVE SubSeq(s, k + 1, n) = s
  <2> DEFINE q == SubSeq(s, k + 1, n)
  <2>1. q \in Seq(S) /\ Len(q) = n /\ \A i \in 1..n : q[i] = s[i]
    BY <1>3, <1>4
  <2> HIDE DEF q
  <2>2. q = s
    BY <2>1
  <2> QED BY <2>2 DEF q
<1> QED BY <1>2, <1>3, <1>4

\* A cut record is no longer than a record.
LEMMA CutsAreLines ==
    ASSUME NEW l \in Records, NEW cut \in Cuts(l)
    PROVE  cut \in Seq(Field) /\ Len(cut) <= 4
<1>1. l \in Seq(Field) /\ Len(l) = 4
  BY RecordsAreLines
<1>2. ASSUME NEW k \in 0..4 PROVE SubSeq(l, 1, k) \in Seq(Field) /\ Len(SubSeq(l, 1, k)) = k
  BY <1>1, Parts, ZenonT(40)
<1>3. \A k \in 1..4 : Garbage[k] \in Field
  BY DEF Field
<1>4. ASSUME NEW k \in 0..4, cut = SubSeq(l, 1, k) PROVE cut \in Seq(Field) /\ Len(cut) <= 4
  BY <1>2, <1>4
<1>5. ASSUME NEW k \in 0..3, cut = Append(SubSeq(l, 1, k), Garbage[k + 1])
      PROVE  cut \in Seq(Field) /\ Len(cut) <= 4
  <2>1. k \in 0..4 /\ k + 1 \in 1..4
    OBVIOUS
  <2>2. Len(cut) = k + 1 /\ cut \in Seq(Field)
    BY <1>2, <1>3, <1>5, <2>1, AppendProperties
  <2> QED BY <2>2
<1> QED BY <1>4, <1>5 DEF Cuts

\* What is inserted into a cut line is as long as a record, and into an empty one is the record.
LEMMA GlueIsALine ==
    ASSUME NEW l \in Records, NEW cut \in Seq(Field), Len(cut) <= 4
    PROVE  /\ Glue(cut, l) \in Seq(Field) /\ Len(Glue(cut, l)) = 4
           /\ cut = <<>> => Glue(cut, l) = l
<1>1. l \in Seq(Field) /\ Len(l) = 4
  BY RecordsAreLines
<1> DEFINE k == Len(cut)
           n == 4
           rest == SubSeq(l, k + 1, n)
<1>2. k \in Nat /\ k <= n /\ n \in Nat /\ Len(l) = n /\ l \in Seq(Field)
  BY <1>1
<1> HIDE DEF k, n
<1>3. rest \in Seq(Field) /\ Len(rest) = n - k /\ (k = 0 => rest = l)
  <2>1. k \in 0..n
    BY <1>2
  <2> QED BY <1>2, <2>1, Parts
<1> HIDE DEF rest
<1>4. Glue(cut, l) = cut \o rest
  BY DEF Glue, rest, k, n
<1>5. /\ cut \o rest \in Seq(Field) /\ Len(cut \o rest) = k + Len(rest)
  BY <1>3, ConcatProperties DEF k
<1>6. Len(cut \o rest) = 4
  <2>1. Len(cut \o rest) = k + (n - k)
    BY <1>3, <1>5
  <2> QED BY <1>2, <2>1 DEF n
<1>7. cut = <<>> => Glue(cut, l) = l
  <2> SUFFICES ASSUME cut = <<>> PROVE <<>> \o rest = l
    BY <1>4
  <2>1. k = 0
    BY EmptySeq DEF k
  <2> QED BY <1>3, <2>1, ConcatEmptySeq
<1> QED BY <1>4, <1>5, <1>6, <1>7

\* Sets with a bijection between them have the same number of members.
LEMMA SameSize ==
    ASSUME NEW S, NEW T, IsFiniteSet(S), NEW f \in [S -> T],
           \A x, y \in S : f[x] = f[y] => x = y, \A t \in T : \E x \in S : f[x] = t
    PROVE  IsFiniteSet(T) /\ Cardinality(T) = Cardinality(S)
<1>1. f \in Bijection(S, T)
  BY Fun_IsBij
<1>2. ExistsBijection(S, T)
  BY <1>1, Fun_ExistsBij
<1> QED BY <1>2, FS_Bijection

\* A journal to which nothing was glued is read line by line.
LEMMA AllIsKept ==
    ASSUME JournalInv, ~glued
    PROVE  /\ DOMAIN lines = 1..Len(lines) /\ Kept(lines) = 1..Len(lines)
           /\ \A r \in Runs : \A i \in 1..Len(lines) : RunOf(lines[i]) = r => Given(r, lines[i])
<1>1. DOMAIN lines = 1..Len(lines) /\ Len(lines) \in Nat
  BY DEF JournalInv, JournalTypes
<1>2. LinesGiven
  BY DEF JournalInv, Faithful
<1>3. ASSUME NEW i \in 1..Len(lines), NEW j \in 1..i - 1, Id(lines[j]) = Id(lines[i]) PROVE FALSE
  <2>1. j \in 1..Len(lines) /\ j # i
    BY <1>1
  <2>2. PICK r \in Runs : Given(r, lines[i])
    BY <1>2 DEF LinesGiven
  <2>3. PICK q \in Runs : Given(q, lines[j])
    BY <1>2, <2>1 DEF LinesGiven
  <2>4. lines[i] = lines[j]
    BY <1>3, <2>2, <2>3, SameId
  <2> QED BY <1>2, <2>1, <2>4 DEF LinesGiven
<1>4. Kept(lines) = 1..Len(lines)
  BY <1>1, <1>3 DEF Kept
<1>5. ASSUME NEW r \in Runs, NEW i \in 1..Len(lines), RunOf(lines[i]) = r PROVE Given(r, lines[i])
  BY <1>2, <1>5, GivenFacts DEF LinesGiven
<1> QED BY <1>1, <1>4, <1>5

\* The cases of a run that have been written: all, or all but the one whose commit waits.
LEMMA WrittenCases ==
    ASSUME JournalInv, NEW r \in Runs
    PROVE  /\ caseNo[r] \in Nat /\ Len(todo[r]) \in Nat
           /\ IsFiniteSet(Written(r))
           /\ \/ /\ Written(r) = 1..caseNo[r]
                 /\ \A k \in 1..Len(todo[r]) : Ev(todo[r][k]) # "case_complete"
              \/ /\ Written(r) = 1..caseNo[r] - 1 /\ todo[r] # <<>>
                 /\ todo[r][Len(todo[r])] = Commit(r, caseNo[r])
<1> DEFINE n == Len(todo[r])
           waits == {k \in DOMAIN todo[r] : Ev(todo[r][k]) = "case_complete"}
<1>1. caseNo[r] \in Nat /\ todo[r] \in Seq(Records) /\ n \in Nat /\ DOMAIN todo[r] = 1..n
  BY JournalAssumption DEF JournalInv, JournalTypes
<1>2. Waiting(r)
  BY DEF JournalInv
<1>3. CASE waits = {}
  <2>1. Cardinality(waits) = 0
    BY <1>3, FS_EmptySet
  <2> HIDE DEF waits
  <2>2. Written(r) = 1..caseNo[r] - Cardinality(waits)
    BY DEF Written, waits
  <2>5. caseNo[r] - Cardinality(waits) = caseNo[r]
    BY <1>1, <2>1
  <2>3. Written(r) = 1..caseNo[r]
    BY <2>2, <2>5
  <2>6. 1 \in Int /\ caseNo[r] \in Int
    BY <1>1
  <2>4. IsFiniteSet(1..caseNo[r])
    BY <2>6, FS_Interval
  <2> QED BY <1>1, <1>3, <2>3, <2>4 DEF waits
<1>4. CASE waits # {}
  <2>1. PICK k \in 1..n : Ev(todo[r][k]) = "case_complete"
    BY <1>1, <1>4
  <2>2. k = n
    <3>1. SUFFICES ASSUME k < n PROVE FALSE
      BY <1>1
    <3>2. PICK m \in 1..NModes : todo[r][k] = Mode(r, caseNo[r], m)
      BY <1>2, <3>1 DEF Waiting
    <3> QED BY <1>1, <2>1, <3>2, CommitRecord, ModeRecord
  <2>3. waits = {n}
    <3>1. ASSUME NEW j \in waits, j # n PROVE FALSE
      <4>1. j \in 1..n /\ j < n
        BY <1>1, <3>1
      <4>2. PICK m \in 1..NModes : todo[r][j] = Mode(r, caseNo[r], m)
        BY <1>2, <4>1 DEF Waiting
      <4> QED BY <1>1, <3>1, <4>2, CommitRecord, ModeRecord
    <3> QED BY <1>1, <2>1, <2>2, <3>1
  <2>4. todo[r][n] = Commit(r, caseNo[r]) /\ todo[r] # <<>>
    BY <1>1, <1>2, <2>1, <2>2 DEF Waiting
  <2>5. Cardinality(waits) = 1
    BY <2>3, FS_Singleton
  <2> HIDE DEF waits
  <2>6. Written(r) = 1..caseNo[r] - Cardinality(waits)
    BY DEF Written, waits
  <2>7. Written(r) = 1..caseNo[r] - 1
    BY <2>5, <2>6
  <2>8. IsFiniteSet(1..caseNo[r] - 1)
    <3>1. 1 \in Int /\ caseNo[r] - 1 \in Int
      BY <1>1
    <3> QED BY <3>1, FS_Interval
  <2> QED BY <1>1, <2>4, <2>7, <2>8
<1> QED BY <1>3, <1>4

\* The commits in the journal are those of the written cases, one each.
LEMMA CommitsAreCases ==
    ASSUME JournalInv, ~glued, NEW r \in Runs
    PROVE  /\ \A i \in Committed(lines, r) : i \in 1..Len(lines) /\ \E c \in Written(r) : c \in 1..caseNo[r] /\ lines[i] = Commit(r, c)
           /\ \A c \in Written(r) : \E i \in Committed(lines, r) : lines[i] = Commit(r, c)
           /\ Written(r) \subseteq 1..caseNo[r]
<1> DEFINE n == Len(todo[r])
<1>1. Committed(lines, r) = {i \in 1..Len(lines) : RunOf(lines[i]) = r /\ Ev(lines[i]) = "case_complete"}
  BY AllIsKept DEF Committed, ReplayOf
<1>2. LinesGiven /\ CasesKept
  BY DEF JournalInv, Faithful
<1>3. /\ caseNo[r] \in Nat /\ n \in Nat
      /\ \/ Written(r) = 1..caseNo[r] /\ \A k \in 1..n : Ev(todo[r][k]) # "case_complete"
         \/ Written(r) = 1..caseNo[r] - 1 /\ n \in 1..n /\ todo[r][n] = Commit(r, caseNo[r])
  <2>1. todo[r] \in Seq(Records)
    BY DEF JournalInv, JournalTypes
  <2>2. todo[r] # <<>> => n \in 1..n
    BY <2>1, EmptySeq
  <2> QED BY <2>2, WrittenCases
<1> HIDE DEF n
<1>4. Written(r) \subseteq 1..caseNo[r]
  BY <1>3
<1>5. ASSUME NEW i \in Committed(lines, r)
      PROVE  i \in 1..Len(lines) /\ \E c \in Written(r) : c \in 1..caseNo[r] /\ lines[i] = Commit(r, c)
  <2>1. i \in 1..Len(lines) /\ Given(r, lines[i]) /\ Ev(lines[i]) = "case_complete"
    BY <1>1, AllIsKept
  <2>2. PICK c \in 1..caseNo[r] : lines[i] = Commit(r, c)
    BY <2>1, GivenFacts
  <2>3. c \in Written(r)
    <3>1. CASE Written(r) = 1..caseNo[r]
      BY <3>1
    <3>2. CASE Written(r) = 1..caseNo[r] - 1 /\ n \in 1..n /\ todo[r][n] = Commit(r, caseNo[r])
      <4>1. c # caseNo[r]
        BY <1>2, <2>1, <2>2, <3>2 DEF LinesGiven, n
      <4> QED BY <1>3, <3>2, <4>1
    <3> QED BY <1>3, <3>1, <3>2
  <2> QED BY <2>1, <2>2, <2>3
<1>6. ASSUME NEW c \in Written(r) PROVE \E i \in Committed(lines, r) : lines[i] = Commit(r, c)
  <2>1. ~InTodo(r, Commit(r, c))
    <3> SUFFICES ASSUME NEW k \in 1..n, todo[r][k] = Commit(r, c) PROVE FALSE
      BY DEF InTodo, n
    <3>1. Ev(todo[r][k]) = "case_complete"
      BY <1>3, <1>4, CommitRecord, ModeRecord
    <3>2. Written(r) = 1..caseNo[r] - 1
      BY <1>3, <3>1
    <3>3. todo[r][k] = Commit(r, caseNo[r])
      BY <3>1 DEF JournalInv, Waiting, n
    <3>4. c = caseNo[r]
      BY <1>3, <1>4, <3>3, RecordsApart
    <3> QED BY <1>3, <3>2, <3>4
  <2>2. InLines(Commit(r, c))
    BY <1>2, <1>4, <2>1 DEF CasesKept
  <2>3. PICK i \in 1..Len(lines) : lines[i] = Commit(r, c)
    BY <2>2 DEF InLines
  <2> QED BY <1>1, <1>3, <1>4, <2>3, CommitRecord, ModeRecord
<1> QED BY <1>4, <1>5, <1>6

\* There are as many commits as written cases.
LEMMA CommitsCounted ==
    ASSUME JournalInv, ~glued, NEW r \in Runs
    PROVE  /\ {CaseOf(lines[i]) : i \in Committed(lines, r)} = Written(r)
           /\ Cardinality(Committed(lines, r)) = Cardinality(Written(r))
<1> DEFINE S == Written(r)
           T == Committed(lines, r)
           f == [c \in S |-> CHOOSE i \in T : lines[i] = Commit(r, c)]
<1>1. \A i \in T : i \in 1..Len(lines) /\ \E c \in S : lines[i] = Commit(r, c)
  BY CommitsAreCases
<1>2. \A c \in S : \E i \in T : lines[i] = Commit(r, c)
  BY CommitsAreCases
<1>3. \A i, j \in T : lines[i] = lines[j] => i = j
  BY <1>1 DEF JournalInv, Faithful, LinesGiven
<1>4. \A i \in T : \A c : lines[i] = Commit(r, c) => CaseOf(lines[i]) = c
  BY CommitRecord, ModeRecord
<1>5. IsFiniteSet(S)
  BY WrittenCases
<1>6. \A c \in S : f[c] \in T /\ lines[f[c]] = Commit(r, c)
  BY <1>2
<1>7. f \in [S -> T]
  BY <1>6
<1> HIDE DEF S, T, f
<1>8. \A c, d \in S : f[c] = f[d] => c = d
  BY <1>4, <1>6, RecordsApart
<1>9. \A i \in T : \E c \in S : f[c] = i
  BY <1>1, <1>3, <1>6
<1>10. Cardinality(T) = Cardinality(S)
  BY <1>5, <1>7, <1>8, <1>9, SameSize
<1>11. {CaseOf(lines[i]) : i \in T} = S
  BY <1>1, <1>2, <1>4
<1> QED BY <1>10, <1>11 DEF S, T

\* A commit has all modes of its case, each once.
LEMMA ModesCounted ==
    ASSUME JournalInv, ~glued, NEW r \in Runs, NEW i \in Committed(lines, r)
    PROVE  Cardinality(ModesOf(lines, r, i)) = NModes
<1> DEFINE T == ModesOf(lines, r, i)
<1>1. PICK c \in 1..caseNo[r] : c \in Written(r) /\ lines[i] = Commit(r, c)
  BY CommitsAreCases
<1>2. i \in 1..Len(lines) /\ Len(lines) \in Nat
  BY CommitsAreCases DEF JournalInv, JournalTypes
<1>3. LinesGiven /\ CasesKept /\ ModesFirst /\ Waiting(r)
  BY DEF JournalInv, Faithful
<1>4. ReplayOf(lines, r, "mode_result") =
        {k \in 1..Len(lines) : RunOf(lines[k]) = r /\ Ev(lines[k]) = "mode_result"}
  BY AllIsKept DEF ReplayOf
<1>5. ASSUME NEW j \in Committed(lines, r), CaseOf(lines[j]) = CaseOf(lines[i]) PROVE j = i
  <2>1. PICK d \in Written(r) : j \in 1..Len(lines) /\ lines[j] = Commit(r, d)
    BY CommitsAreCases
  <2>2. d = c
    BY <1>1, <1>5, <2>1, CommitRecord, ModeRecord
  <2> QED BY <1>1, <1>2, <1>3, <2>1, <2>2 DEF LinesGiven
<1>6. ASSUME NEW k \in 1..NModes PROVE \E j \in 1..Len(lines) : lines[j] = Mode(r, c, k)
  <2> SUFFICES ASSUME NEW j \in 1..Len(todo[r]), todo[r][j] = Mode(r, c, k) PROVE FALSE
    BY <1>3 DEF CasesKept, InLines, InTodo
  <2>1. Ev(todo[r][j]) = "mode_result" /\ CaseOf(todo[r][j]) = c
    BY CommitRecord, ModeRecord
  <2>2. j < Len(todo[r])
    BY <1>3, <2>1 DEF Waiting
  <2>3. PICK n \in 1..NModes : todo[r][j] = Mode(r, caseNo[r], n)
    BY <1>3, <2>2 DEF Waiting
  <2>4. c = caseNo[r]
    BY <2>1, <2>3, CommitRecord, ModeRecord
  <2>5. Len(todo[r]) \in 1..Len(todo[r])
    BY <2>2, WrittenCases
  <2>6. todo[r][Len(todo[r])] = Commit(r, c)
    BY <1>3, <2>2, <2>4, <2>5 DEF Waiting
  <2> QED BY <1>1, <1>2, <1>3, <2>5, <2>6 DEF LinesGiven
<1>7. ASSUME NEW j \in T PROVE j \in 1..Len(lines) /\ \E k \in 1..NModes : lines[j] = Mode(r, c, k)
  <2>1. j \in 1..Len(lines) /\ RunOf(lines[j]) = r /\ Ev(lines[j]) = "mode_result" /\ CaseOf(lines[j]) = c
    BY <1>1, <1>4, CommitRecord, ModeRecord DEF ModesOf
  <2>2. Given(r, lines[j])
    BY <2>1, AllIsKept
  <2>3. PICK d \in 1..caseNo[r], k \in 1..NModes : lines[j] = Mode(r, d, k)
    BY <2>1, <2>2, GivenFacts
  <2>4. d = c
    BY <2>1, <2>3, CommitRecord, ModeRecord
  <2> QED BY <2>1, <2>3, <2>4
<1>8. ASSUME NEW k \in 1..NModes, NEW j \in 1..Len(lines), lines[j] = Mode(r, c, k) PROVE j \in T
  <2>1. RunOf(lines[j]) = r /\ Ev(lines[j]) = "mode_result" /\ CaseOf(lines[j]) = c
    BY <1>8, CommitRecord, ModeRecord
  <2>2. j < i
    <3>1. c \in 1..NCases
      BY <1>1, JournalAssumption DEF JournalInv, JournalTypes
    <3> QED BY <1>1, <1>2, <1>3, <1>8, <3>1 DEF ModesFirst
  <2>3. CaseOf(lines[i]) = c
    BY <1>1, CommitRecord, ModeRecord
  <2>4. \A m \in Committed(lines, r) : j < m /\ m < i => CaseOf(lines[m]) # CaseOf(lines[i])
    BY <1>2, <1>5
  <2> QED BY <1>4, <2>1, <2>2, <2>3, <2>4 DEF ModesOf
<1> DEFINE S == 1..NModes
           f == [k \in S |-> CHOOSE j \in T : lines[j] = Mode(r, c, k)]
<1>9. \A k \in S : f[k] \in T /\ lines[f[k]] = Mode(r, c, k)
  BY <1>6, <1>8
<1>10. \A j, l \in T : lines[j] = lines[l] => j = l
  BY <1>3, <1>7 DEF LinesGiven
<1>11. f \in [S -> T]
  BY <1>9
<1>12. IsFiniteSet(S) /\ Cardinality(S) = NModes
  <2>1. 1 \in Int /\ NModes \in Int /\ NModes \in Nat \ {0}
    BY ModesApart
  <2>2. IsFiniteSet(1..NModes) /\ Cardinality(1..NModes) = IF 1 > NModes THEN 0 ELSE NModes - 1 + 1
    BY <2>1, FS_Interval
  <2> QED BY <2>1, <2>2
<1>13. \A j \in T : \E k \in S : lines[j] = Mode(r, c, k)
  BY <1>7
<1>14. \A k, n \in S : Mode(r, c, k) = Mode(r, c, n) => k = n
  BY <1>1, RecordsApart
<1> HIDE DEF S, T, f
<1>15. \A k, n \in S : f[k] = f[n] => k = n
  BY <1>9, <1>14
<1>16. \A j \in T : \E k \in S : f[k] = j
  BY <1>9, <1>10, <1>13
<1>17. Cardinality(T) = Cardinality(S)
  BY <1>11, <1>12, <1>15, <1>16, SameSize
<1> QED BY <1>12, <1>17 DEF T

\* What is read back is what was written.
LEMMA ReplayIsExact == JournalInv => ReplayExact
<1> SUFFICES ASSUME JournalInv, ~glued
             PROVE  /\ ~Fatal(lines)
                    /\ \A r \in Runs :
                        LET done == Committed(lines, r)
                        IN  /\ {CaseOf(lines[i]) : i \in done} = Written(r)
                            /\ Cardinality(done) = Cardinality(Written(r))
                            /\ \A i \in done : Cardinality(ModesOf(lines, r, i)) = Len(CaseModes)
  BY DEF ReplayExact
<1>1. ~Fatal(lines)
  <2>1. DOMAIN lines = 1..Len(lines) /\ LinesGiven
    BY DEF JournalInv, JournalTypes, Faithful
  <2>2. \A i \in 1..Len(lines) : Ev(lines[i]) \in Events
    BY <2>1, GivenFacts DEF LinesGiven
  <2> QED BY <2>1, <2>2 DEF Fatal, Events, Ends
<1>2. \A r \in Runs : \A i \in Committed(lines, r) : Cardinality(ModesOf(lines, r, i)) = Len(CaseModes)
  BY ModesCounted DEF NModes
<1> QED BY <1>1, <1>2, CommitsCounted

\* An end tells the truth, and so does a summary.
LEMMA TerminalIsTrue == JournalInv => TerminalTrue
<1> SUFFICES ASSUME JournalInv PROVE TerminalTrue
  OBVIOUS
<1>1. ASSUME ~glued, NEW r \in Runs, NEW i \in Terminal(lines, r)
      PROVE  /\ IF Ev(lines[i]) = "run_finished"
                THEN Cardinality(Committed(lines, r)) = NCases /\ r \notin anyCancelled
                ELSE r \in cancelAsked \cup abandoned
             /\ \A j \in i + 1 .. Len(lines) : RunOf(lines[j]) # r
  <2>1. i \in 1..Len(lines) /\ RunOf(lines[i]) = r /\ Ev(lines[i]) \in Ends
    BY <1>1, AllIsKept DEF Terminal, ReplayOf, Ends
  <2>2. Given(r, lines[i])
    BY <1>1, <2>1, AllIsKept
  <2>3. TrueEnd(r, lines[i]) /\ EndsLast
    BY <1>1, <2>1, <2>2, GivenFacts DEF JournalInv, Faithful
  <2>4. todo[r] = <<>> /\ \A j \in 1..Len(lines) : i < j => RunOf(lines[j]) # r
    BY <2>1, <2>3 DEF EndsLast
  <2>5. \A j \in i + 1 .. Len(lines) : RunOf(lines[j]) # r
    <3>1. Len(lines) \in Nat
      BY DEF JournalInv, JournalTypes
    <3> QED BY <2>1, <2>4, <3>1
  <2>6. ASSUME Ev(lines[i]) = "run_finished"
        PROVE  Cardinality(Committed(lines, r)) = NCases /\ r \notin anyCancelled
    <3>1. caseNo[r] = NCases /\ r \notin anyCancelled
      BY <2>3, <2>6, EndRecord DEF TrueEnd
    <3>2. Written(r) = 1..NCases
      BY <2>4, <3>1, WrittenCases
    <3>3. Cardinality(Committed(lines, r)) = Cardinality(1..NCases)
      BY <1>1, <3>2, CommitsCounted
    <3>4. Cardinality(1..NCases) = NCases
      <4>1. 1 \in Int /\ NCases \in Int /\ NCases \in Nat
        BY JournalAssumption
      <4>2. Cardinality(1..NCases) = IF 1 > NCases THEN 0 ELSE NCases - 1 + 1
        BY <4>1, FS_Interval
      <4> QED BY <4>1, <4>2
    <3> QED BY <3>1, <3>3, <3>4
  <2>7. ASSUME Ev(lines[i]) # "run_finished" PROVE r \in cancelAsked \cup abandoned
    BY <2>3, <2>7, EndRecord DEF TrueEnd
  <2> QED BY <2>5, <2>6, <2>7
<1>2. summary.run # NoRun =>
        /\ summary.committed <= Cardinality(Committed(lines, summary.run))
        /\ summary.finished => Terminal(lines, summary.run) # {}
  BY DEF JournalInv, Backed
<1> QED BY <1>1, <1>2 DEF TerminalTrue

\* Nothing is written at first.
LEMMA JournalBegins == JournalInit => JournalInv
<1> SUFFICES ASSUME JournalInit PROVE JournalInv
  OBVIOUS
<1>1. /\ lines = <<>> /\ tail = <<>> /\ suiteLock = NoRun /\ inserted = {} /\ cancelAsked = {} /\ anyCancelled = {}
      /\ abandoned = {}
      /\ \A r \in Runs : session[r] = "new" /\ todo[r] = <<>> /\ caseNo[r] = 0
      /\ summary.run = NoRun /\ recovery.run = NoRun
  BY DEF JournalInit
<1>2. todo \in [Runs -> Seq(Records)] /\ caseNo \in [Runs -> 0..NCases] /\ session \in [Runs -> {"new"}]
  BY JournalAssumption, EmptySeq DEF JournalInit
<1>3. Len(<<>>) = 0 /\ \A S : <<>> \in Seq(S)
  BY EmptySeq
<1>4. JournalTypes
  <2>1. DOMAIN lines = {}
    BY <1>1
  <2>2. CaseModes \in Seq(STRING)
    BY JournalAssumption
  <2> QED BY <1>1, <1>2, <1>3, <2>1, <2>2, JournalAssumption DEF JournalTypes, JournalTypeOK
<1>5. OneWriter
  BY <1>1, JournalAssumption DEF OneWriter, Running
<1>6. \A r \in Runs : Waiting(r)
  BY <1>1, <1>3 DEF Waiting
<1>7. Faithful
  BY <1>1, <1>3 DEF Faithful, TailTrue, LinesGiven, CasesKept, ModesFirst, EndsLast
<1> QED BY <1>1, <1>4, <1>5, <1>6, <1>7 DEF JournalInv, Backed

\* What a step does to what a run has been given: it is not taken back.
Grows(q) ==
    /\ caseNo[q] \in Nat /\ caseNo'[q] \in Nat /\ caseNo[q] <= caseNo'[q]
    /\ session[q] \notin {"new", "busy"} => session'[q] \notin {"new", "busy"}
    /\ session[q] \in {"ending", "closed", "dead"} =>
          /\ session'[q] \in {"ending", "closed", "dead"}
          /\ caseNo'[q] = caseNo[q] /\ (q \in anyCancelled' => q \in anyCancelled)
    /\ cancelAsked \subseteq cancelAsked' /\ abandoned \subseteq abandoned'

\* Every step of the journal is one of these.
LEMMA StepsGrow ==
    ASSUME JournalTypes, JournalNext, NEW q \in Runs
    PROVE  Grows(q)
<1>1. /\ caseNo \in [Runs -> Nat] /\ caseNo[q] \in Nat
      /\ session \in [Runs -> {"new", "busy", "open", "ending", "closed", "dead"}]
  BY JournalAssumption DEF JournalTypes, JournalTypeOK
<1>2. ASSUME NEW r \in Runs, OpenSession(r) PROVE Grows(q)
  <2>1. /\ UNCHANGED runner /\ session[r] = "new"
        /\ session' = [session EXCEPT ![r] = "open"] \/ session' = [session EXCEPT ![r] = "busy"]
    BY <1>2 DEF OpenSession
  <2> QED BY <1>1, <2>1 DEF Grows, runner
<1>3. ASSUME NEW r \in Runs, InsertText(r) \/ InsertNewline(r) \/ RecoveryReads(r) PROVE Grows(q)
  BY <1>1, <1>3 DEF InsertText, InsertNewline, RecoveryReads, Grows, runner
<1>4. ASSUME NEW r \in Runs, RunCase(r) PROVE Grows(q)
  <2>1. /\ session[r] = "open" /\ session' = session /\ caseNo' = [caseNo EXCEPT ![r] = @ + 1]
        /\ cancelAsked \subseteq cancelAsked' /\ abandoned' = abandoned /\ (q # r => (q \in anyCancelled' => q \in anyCancelled))
    BY <1>4 DEF RunCase, RunnerIdle
  <2> QED BY <1>1, <2>1 DEF Grows
<1>5. ASSUME NEW r \in Runs, AskCancel(r) PROVE Grows(q)
  BY <1>1, <1>5 DEF AskCancel, Grows
<1>6. ASSUME NEW r \in Runs, Finish(r) PROVE Grows(q)
  <2>1. UNCHANGED runner /\ session[r] = "open" /\ session' = [session EXCEPT ![r] = "ending"]
    BY <1>6 DEF Finish, RunnerIdle
  <2> QED BY <1>1, <2>1 DEF Grows, runner
<1>10. ASSUME NEW r \in Runs, Abandon(r) PROVE Grows(q)
  <2>1. /\ UNCHANGED <<caseNo, cancelAsked, anyCancelled>> /\ abandoned' = abandoned \cup {r}
        /\ session[r] = "open" /\ session' = [session EXCEPT ![r] = "ending"]
    BY <1>10 DEF Abandon, RunnerIdle
  <2> QED BY <1>1, <2>1 DEF Grows
<1>7. ASSUME NEW r \in Runs, Close(r) PROVE Grows(q)
  BY <1>1, <1>7 DEF Close, Grows, runner
<1>8. ASSUME NEW r \in Runs, Crash(r) PROVE Grows(q)
  <2>1. session' = [session EXCEPT ![r] = "dead"] /\ UNCHANGED runner
    BY <1>8 DEF Crash
  <2> QED BY <1>1, <2>1 DEF Grows, runner
<1>9. CASE RecoveryWrites
  BY <1>1, <1>9 DEF RecoveryWrites, Grows, runner
<1> QED BY <1>2, <1>3, <1>4, <1>5, <1>6, <1>7, <1>8, <1>9, <1>10 DEF JournalNext

\* So that what was given stays given.
LEMMA GivenStays ==
    ASSUME NEW q, Grows(q), NEW l, Given(q, l)
    PROVE  Given(q, l)'
<1>1. CASE l = Begun(q) /\ session[q] \notin {"new", "busy"}
  BY <1>1 DEF Grows, Given, Begun
<1>2. ASSUME NEW c \in 1..caseNo[q], NEW k \in 1..NModes, l = Mode(q, c, k) PROVE Given(q, l)'
  <2>1. c \in 1..caseNo'[q]
    BY <1>2 DEF Grows
  <2> QED BY <1>2, <2>1 DEF Given
<1>3. ASSUME NEW c \in 1..caseNo[q], l = Commit(q, c) PROVE Given(q, l)'
  <2>1. c \in 1..caseNo'[q]
    BY <1>3 DEF Grows
  <2> QED BY <1>3, <2>1 DEF Given
<1>4. CASE TrueEnd(q, l) /\ session[q] \in {"ending", "closed", "dead"}
  BY <1>4 DEF Grows, Given, TrueEnd
<1> QED BY <1>1, <1>2, <1>3, <1>4 DEF Given

\* What a step does to the lines, the tail and what waits: a session is given a
\* batch, which is new and is the rest of a case or one record.
Gives(r) ==
    /\ todo[r] = <<>> /\ todo'[r] # <<>> /\ session[r] \in {"new", "open"}
    /\ todo'[r] \in Seq(Records) /\ Len(todo'[r]) <= 1 + NModes
    /\ todo' = [todo EXCEPT ![r] = todo'[r]]
    /\ UNCHANGED <<lines, tail, inserted>>
    /\ Running(r)'
    /\ \A i \in 1..Len(todo'[r]) : RunOf(todo'[r][i]) = r /\ ~Given(r, todo'[r][i])
    /\ \A c \in 1..caseNo'[r] : c \notin 1..caseNo[r] =>
          /\ \E i \in 1..Len(todo'[r]) : todo'[r][i] = Commit(r, c)
          /\ \A k \in 1..NModes : \E i \in 1..Len(todo'[r]) : todo'[r][i] = Mode(r, c, k)
    /\ \A q \in Runs \ {r} : caseNo'[q] = caseNo[q]
    /\ Waiting(r)'

\* One record waits, that is not of a case.
LEMMA OneWaits ==
    ASSUME NEW r \in Runs, NEW l, NEW b, b = <<l>>, todo'[r] = b, Given(r, l)',
           Ev(l) \notin {"mode_result", "case_complete"}
    PROVE  Waiting(r)'
<1>1. Len(b) = 1 /\ \A i \in 1..1 : i = 1 /\ b[i] = l
  OBVIOUS
<1>2. \A i \in 1..1 : ~(i < 1)
  OBVIOUS
<1>3. \A i \in 1..1 : Given(r, b[i])'
  BY <1>1
<1>4. \A i \in 1..1 : Ev(b[i]) # "mode_result" /\ Ev(b[i]) # "case_complete"
  BY <1>1
<1>5. \A i, j \in 1..1 : b[i] = b[j] => i = j
  BY <1>1
<1> QED BY <1>1, <1>2, <1>3, <1>4, <1>5 DEF Waiting

\* A session that opens is given its start.
LEMMA OpenGives ==
    ASSUME JournalInv, NEW r \in Runs, OpenSession(r), suiteLock = NoRun
    PROVE  Gives(r)
<1>1. /\ session[r] = "new" /\ todo[r] = <<>> /\ caseNo[r] = 0 /\ todo \in [Runs -> Seq(Records)]
      /\ session \in [Runs -> {"new", "busy", "open", "ending", "closed", "dead"}]
  BY DEF JournalInv, JournalTypes, JournalTypeOK, OpenSession
<1>2. /\ UNCHANGED <<lines, tail, inserted, caseNo>> /\ session' = [session EXCEPT ![r] = "open"]
      /\ todo' = [todo EXCEPT ![r] = <<Begun(r)>>]
  BY DEF OpenSession, runner, Begun
<1>3. Begun(r) \in Records
  <2>1. "run_started" \in Events /\ "" \in Whats /\ NoCase \in 0..NCases
    BY JournalAssumption DEF Events, Whats, NoCase
  <2> QED BY <2>1, IsARecord DEF Begun
<1>0. PICK b : b = <<Begun(r)>>
  OBVIOUS
<1>4. b \in Seq(Records) /\ b # <<>> /\ Len(b) = 1 /\ b[1] = Begun(r)
  BY <1>0, <1>3
<1>5. todo'[r] = b /\ todo' = [todo EXCEPT ![r] = b] /\ session'[r] = "open"
  BY <1>0, <1>1, <1>2
<1>6. ~Given(r, Begun(r)) /\ RunOf(Begun(r)) = r
  BY <1>1, BegunRecord, EndRecord, CommitRecord, ModeRecord DEF Given, TrueEnd
<1>7. Given(r, Begun(r))'
  BY <1>5 DEF Given, Begun
<1>8. Waiting(r)'
  <2>1. Ev(Begun(r)) \notin {"mode_result", "case_complete"}
    BY BegunRecord
  <2> QED BY <1>0, <1>5, <1>7, <2>1, OneWaits
<1>9. Len(b) <= 1 + NModes
  BY <1>4, ModesApart
<1> QED BY <1>1, <1>2, <1>4, <1>5, <1>6, <1>8, <1>9 DEF Gives, Running

\* A run that is over is given its end.
LEMMA EndGives ==
    ASSUME JournalInv, NEW r \in Runs, NEW ev \in Ends, session[r] = "open", todo[r] = <<>>,
           UNCHANGED <<lines, tail, inserted, caseNo>>,
           session' = [session EXCEPT ![r] = "ending"],
           todo' = [todo EXCEPT ![r] = <<EndOf(r, ev)>>],
           TrueEnd(r, EndOf(r, ev))'
    PROVE  Gives(r)
<1>1. /\ session[r] = "open" /\ todo[r] = <<>> /\ todo \in [Runs -> Seq(Records)]
      /\ session \in [Runs -> {"new", "busy", "open", "ending", "closed", "dead"}]
      /\ caseNo[r] \in 0..NCases /\ NCases \in Nat
  BY JournalAssumption DEF JournalInv, JournalTypes, JournalTypeOK
<1>3. PICK b : b = <<EndOf(r, ev)>>
  OBVIOUS
<1>4. /\ UNCHANGED <<lines, tail, inserted, caseNo>>
      /\ session' = [session EXCEPT ![r] = "ending"]
      /\ todo' = [todo EXCEPT ![r] = b]
  BY <1>3
<1>5. EndOf(r, ev) \in Records
  <2>1. ev \in Events /\ "" \in Whats /\ NoCase \in 0..NCases
    BY <1>1 DEF Events, Whats, NoCase
  <2> QED BY <2>1, IsARecord DEF EndOf
<1>7. b \in Seq(Records) /\ b # <<>> /\ Len(b) = 1 /\ b[1] = EndOf(r, ev)
  BY <1>3, <1>5
<1>8. todo'[r] = b /\ session'[r] = "ending"
  BY <1>1, <1>4
<1>9. ~Given(r, EndOf(r, ev))
  <2>1. Ev(EndOf(r, ev)) \in Ends
    BY EndRecord
  <2> QED BY <1>1, <2>1, GivenFacts
<1>10. Given(r, EndOf(r, ev))'
  BY <1>8 DEF Given
<1>11. Ev(b[1]) # "mode_result" /\ Ev(b[1]) # "case_complete"
  BY <1>7, EndRecord DEF Ends
<1>12. Waiting(r)'
  <2>1. Ev(EndOf(r, ev)) \notin {"mode_result", "case_complete"}
    BY <1>7, <1>11
  <2> QED BY <1>3, <1>8, <1>10, <2>1, OneWaits
<1>13. Len(b) <= 1 + NModes
  BY <1>7, ModesApart
<1>14. \A i \in 1..Len(b) : RunOf(b[i]) = r /\ ~Given(r, b[i])
  BY <1>7, <1>9, EndRecord
<1>15. \A c \in 1..caseNo'[r] : c \in 1..caseNo[r]
  BY <1>4
<1> QED BY <1>1, <1>4, <1>7, <1>8, <1>12, <1>13, <1>14, <1>15 DEF Gives, Running

\* A run that finishes is given an end that says how.
LEMMA FinishGives ==
    ASSUME JournalInv, NEW r \in Runs, Finish(r)
    PROVE  Gives(r)
<1>1. /\ session[r] = "open" /\ todo[r] = <<>> /\ caseNo[r] \in 0..NCases /\ NCases \in Nat
      /\ caseNo[r] = NCases \/ r \in cancelAsked
      /\ r \in anyCancelled => r \in cancelAsked
  BY JournalAssumption DEF JournalInv, JournalTypes, JournalTypeOK, Finish, RunnerIdle
<1>2. PICK ev \in Ends : ev = IF caseNo[r] < NCases \/ r \in anyCancelled THEN "run_cancelled" ELSE "run_finished"
  BY DEF Ends
<1>3. /\ UNCHANGED <<lines, tail, inserted, caseNo, cancelAsked, anyCancelled, abandoned>>
      /\ session' = [session EXCEPT ![r] = "ending"]
      /\ todo' = [todo EXCEPT ![r] = <<EndOf(r, ev)>>]
  BY <1>2 DEF Finish, runner, EndOf
<1>4. TrueEnd(r, EndOf(r, ev))'
  <2>1. CASE caseNo[r] < NCases \/ r \in anyCancelled
    <3>1. ev = "run_cancelled" /\ r \in cancelAsked'
      BY <1>1, <1>2, <1>3, <2>1
    <3> QED BY <3>1 DEF TrueEnd, EndOf
  <2>2. CASE ~(caseNo[r] < NCases \/ r \in anyCancelled)
    <3>1. ev = "run_finished" /\ caseNo'[r] = NCases /\ r \notin anyCancelled'
      BY <1>1, <1>2, <1>3, <2>2
    <3> QED BY <3>1 DEF TrueEnd, EndOf
  <2> QED BY <2>1, <2>2
<1> QED BY <1>1, <1>3, <1>4, EndGives

\* A run whose session is abandoned is given an end that says cancelled.
LEMMA AbandonGives ==
    ASSUME JournalInv, NEW r \in Runs, Abandon(r)
    PROVE  Gives(r)
<1>1. /\ session[r] = "open" /\ todo[r] = <<>> /\ "run_cancelled" \in Ends
      /\ UNCHANGED <<lines, tail, inserted, caseNo>>
      /\ session' = [session EXCEPT ![r] = "ending"]
      /\ todo' = [todo EXCEPT ![r] = <<EndOf(r, "run_cancelled")>>]
      /\ r \in abandoned'
  BY DEF Abandon, RunnerIdle, EndOf, Ends
<1>2. TrueEnd(r, EndOf(r, "run_cancelled"))'
  BY <1>1 DEF TrueEnd, EndOf
<1> QED BY <1>1, <1>2, EndGives

\* A run that has run a case is given its modes and its commit.
LEMMA CaseGives ==
    ASSUME JournalInv, NEW r \in Runs, RunCase(r)
    PROVE  Gives(r)
<1> DEFINE m == NModes + 1
<1>1. /\ session[r] = "open" /\ todo[r] = <<>> /\ todo \in [Runs -> Seq(Records)]
      /\ session \in [Runs -> {"new", "busy", "open", "ending", "closed", "dead"}]
      /\ caseNo \in [Runs -> 0..NCases] /\ NCases \in Nat /\ caseNo[r] < NCases
  BY JournalAssumption DEF JournalInv, JournalTypes, JournalTypeOK, RunCase, RunnerIdle
<1>0. PICK c : c = caseNo[r] + 1
  OBVIOUS
<1> DEFINE modes == [k \in 1..NModes |-> Mode(r, c, k)]
<1>00. PICK b : b = modes \o <<Commit(r, c)>>
  OBVIOUS
<1>2. /\ UNCHANGED <<lines, tail, inserted, session>>
      /\ caseNo' = [caseNo EXCEPT ![r] = @ + 1]
      /\ todo' = [todo EXCEPT ![r] = b]
  <2>1. DOMAIN CaseModes = 1..NModes
    BY JournalAssumption DEF NModes
  <2> QED BY <1>0, <1>00, <2>1 DEF RunCase, Mode, Commit
<1>3. c \in 1..NCases /\ c \notin 1..caseNo[r] /\ caseNo'[r] = c /\ c \in 1..caseNo'[r]
  BY <1>0, <1>1, <1>2
<1>4. NModes \in Nat \ {0} /\ m \in Nat
  BY ModesApart
<1>5. Commit(r, c) \in Records /\ \A k \in 1..NModes : Mode(r, c, k) \in Records
  <2>1. "case_complete" \in Events /\ "mode_result" \in Events /\ "" \in Whats /\ c \in 0..NCases
    BY <1>1, <1>3 DEF Events, Whats
  <2>2. \A k \in 1..NModes : CaseModes[k] \in Whats
    BY DEF Whats
  <2> QED BY <2>1, <2>2, IsARecord DEF Commit, Mode
<1>6. modes \in Seq(Records) /\ Len(modes) = NModes /\ \A k \in 1..NModes : modes[k] = Mode(r, c, k)
  BY <1>4, <1>5
<1>7. /\ b \in Seq(Records) /\ Len(b) = m
      /\ b[m] = Commit(r, c) /\ \A k \in 1..NModes : b[k] = Mode(r, c, k)
  <2> HIDE DEF modes
  <2> DEFINE last == <<Commit(r, c)>>
  <2>1. last \in Seq(Records) /\ Len(last) = 1 /\ last[1] = Commit(r, c)
    BY <1>5
  <2> HIDE DEF last
  <2>2. /\ modes \o last \in Seq(Records) /\ Len(modes \o last) = Len(modes) + Len(last)
        /\ \A i \in 1..Len(modes) + Len(last) :
              (modes \o last)[i] = IF i <= Len(modes) THEN modes[i] ELSE last[i - Len(modes)]
    BY <1>6, <2>1, ConcatProperties
  <2>3. b = modes \o last
    BY <1>00 DEF last
  <2> QED BY <1>4, <1>6, <2>1, <2>2, <2>3
<1> HIDE DEF modes
<1>8. todo'[r] = b /\ session'[r] = "open" /\ b # <<>>
  BY <1>1, <1>2, <1>4, <1>7
<1>9. \A k \in 1..m : k = m \/ k \in 1..NModes
  BY <1>4
<1> HIDE DEF m
<1>10. ASSUME NEW l, Ev(l) \in {"mode_result", "case_complete"}, CaseOf(l) = c PROVE ~Given(r, l)
  BY <1>3, <1>10, GivenFacts, CommitRecord, ModeRecord
<1>11. \A k \in 1..m : RunOf(b[k]) = r /\ ~Given(r, b[k])
  BY <1>7, <1>9, <1>10, CommitRecord, ModeRecord
<1>12. \A k \in 1..m : Given(r, b[k])'
  <2>1. Given(r, Commit(r, c))'
    BY <1>3 DEF Given, Commit
  <2>2. \A k \in 1..NModes : Given(r, Mode(r, c, k))'
    BY <1>3 DEF Given, Mode
  <2> QED BY <1>7, <1>9, <2>1, <2>2
<1>13. Waiting(r)'
  <2>1. \A i, j \in 1..m : b[i] = b[j] => i = j
    <3>1. \A i \in 1..NModes : b[i] # b[m]
      BY <1>7, CommitRecord, ModeRecord
    <3>2. \A i, j \in 1..NModes : b[i] = b[j] => i = j
      BY <1>7, RecordsApart
    <3> QED BY <1>9, <3>1, <3>2
  <2>2. \A i \in 1..m : i < m => i \in 1..NModes
    BY <1>4, <1>9
  <2>3. Ev(b[m]) = "case_complete"
    BY <1>7, CommitRecord
  <2>4. \A i \in 1..m : /\ Ev(b[i]) = "mode_result" => i < m
                        /\ Ev(b[i]) = "case_complete" => b[i] = Commit(r, c)
    <3> SUFFICES ASSUME NEW i \in 1..m
                 PROVE  /\ Ev(b[i]) = "mode_result" => i < m
                        /\ Ev(b[i]) = "case_complete" => b[i] = Commit(r, c)
      OBVIOUS
    <3>1. CASE i = m
      BY <1>7, <2>3, <3>1
    <3>2. CASE i \in 1..NModes
      <4>1. Ev(b[i]) = "mode_result" /\ i < m
        BY <1>4, <1>7, <3>2, ModeRecord DEF m
      <4> QED BY <4>1
    <3> QED BY <1>9, <3>1, <3>2
  <2>5. \A i \in 1..m : i < m => \E k \in 1..NModes : b[i] = Mode(r, caseNo'[r], k)
    BY <1>3, <1>7, <2>2
  <2>6. (\A i \in 1..m : Given(r, b[i])') /\ Len(todo'[r]) = m /\ caseNo'[r] = c
    BY <1>3, <1>7, <1>8, <1>12
  <2> QED BY <1>8, <2>1, <2>3, <2>4, <2>5, <2>6 DEF Waiting, Mode, Commit
<1>14. \A d \in 1..caseNo'[r] : d \notin 1..caseNo[r] => d = c
  BY <1>0, <1>1, <1>3
<1>15. m \in 1..m /\ (\A k \in 1..NModes : k \in 1..m) /\ Len(b) <= 1 + NModes
  BY <1>4, <1>7 DEF m
<1>16. \A q \in Runs \ {r} : caseNo'[q] = caseNo[q]
  BY <1>1, <1>2
<1> QED BY <1>1, <1>2, <1>7, <1>8, <1>11, <1>13, <1>14, <1>15, <1>16 DEF Gives, Running

\* Every step gives a batch, completes a line, or leaves the lines and what waits.
LEMMA StepShapes ==
    ASSUME JournalInv, JournalNext
    PROVE  \/ \E r \in Runs : Gives(r)
           \/ \E r \in Runs : InsertNewline(r)
           \/ UNCHANGED <<lines, todo, caseNo>>
<1>1. ASSUME NEW r \in Runs, OpenSession(r), suiteLock # NoRun PROVE UNCHANGED <<lines, todo, caseNo>>
  BY <1>1 DEF OpenSession, runner
<1>2. ASSUME NEW r \in Runs, InsertText(r) \/ AskCancel(r) \/ Close(r) \/ Crash(r) \/ RecoveryReads(r)
      PROVE  UNCHANGED <<lines, todo, caseNo>>
  BY <1>2 DEF InsertText, AskCancel, Close, Crash, RecoveryReads, runner
<1>3. CASE RecoveryWrites
  BY <1>3 DEF RecoveryWrites, runner
<1> QED BY <1>1, <1>2, <1>3, OpenGives, FinishGives, AbandonGives, CaseGives DEF JournalNext

\* A line that is completed moves from what waits to the end of the journal.
LEMMA NewlineMoves ==
    ASSUME JournalInv, NEW r \in Runs, InsertNewline(r)
    PROVE  /\ todo[r] # <<>> /\ Len(todo[r]) \in Nat /\ Len(lines) \in Nat
           /\ inserted = {r} /\ inserted' = {} /\ tail' = <<>>
           /\ todo' = [todo EXCEPT ![r] = Tail(todo[r])]
           /\ todo'[r] \in Seq(Records) /\ Len(todo'[r]) = Len(todo[r]) - 1
           /\ \A i \in 1..Len(todo[r]) - 1 : todo'[r][i] = todo[r][i + 1]
           /\ lines' \in Seq(Seq(Field)) /\ Len(lines') = Len(lines) + 1
           /\ \A i \in 1..Len(lines) : lines'[i] = lines[i]
           /\ lines'[Len(lines) + 1] = tail
           /\ UNCHANGED <<suiteLock, session, caseNo, cancelAsked, anyCancelled, abandoned, glued>>
<1>1. /\ todo \in [Runs -> Seq(Records)] /\ lines \in Seq(Seq(Field)) /\ tail \in Seq(Field)
      /\ inserted \subseteq Runs
  BY DEF JournalInv, JournalTypes, JournalTypeOK
<1>2. todo[r] # <<>> /\ inserted = {r} /\ inserted' = {} /\ tail' = <<>>
  BY <1>1 DEF InsertNewline, JournalInv, OneWriter, Running
<1>3. /\ todo' = [todo EXCEPT ![r] = Tail(@)] /\ lines' = Append(lines, tail)
      /\ UNCHANGED <<suiteLock, session, caseNo, cancelAsked, anyCancelled, abandoned, glued>>
  BY DEF InsertNewline, runner
<1>4. /\ todo'[r] = Tail(todo[r]) /\ todo[r] \in Seq(Records)
      /\ todo' = [todo EXCEPT ![r] = Tail(todo[r])]
  BY <1>1, <1>3
<1>5. /\ Tail(todo[r]) \in Seq(Records) /\ Len(Tail(todo[r])) = Len(todo[r]) - 1
      /\ \A i \in 1..Len(Tail(todo[r])) : Tail(todo[r])[i] = todo[r][i + 1]
  BY <1>2, <1>4, HeadTailProperties
<1>6. /\ lines' \in Seq(Seq(Field)) /\ Len(lines') = Len(lines) + 1
      /\ \A i \in 1..Len(lines) : lines'[i] = lines[i]
      /\ lines'[Len(lines) + 1] = tail
  BY <1>1, <1>3, AppendProperties
<1>7. Len(todo[r]) \in Nat /\ Len(lines) \in Nat
  BY <1>1, <1>4
<1> QED BY <1>2, <1>3, <1>4, <1>5, <1>6, <1>7

\* What waits still waits as it did.
LEMMA WaitingStays ==
    ASSUME NEW q \in Runs, Waiting(q), Grows(q), todo'[q] = todo[q], caseNo'[q] = caseNo[q]
    PROVE  Waiting(q)'
<1>1. \A i \in 1..Len(todo[q]) : Given(q, todo[q][i])'
  <2> SUFFICES ASSUME NEW i \in 1..Len(todo[q]) PROVE Given(q, todo[q][i])'
    OBVIOUS
  <2>1. PICK l : l = todo[q][i]
    OBVIOUS
  <2>2. Given(q, l)'
    BY <2>1, GivenStays DEF Waiting
  <2> QED BY <2>1, <2>2
<1> QED BY <1>1 DEF Waiting

\* When its first line is completed, what waits is shorter by one.
LEMMA WaitingShifts ==
    ASSUME JournalInv, NEW r \in Runs, InsertNewline(r), Grows(r)
    PROVE  Waiting(r)'
<1>1. PICK b : b = todo[r]
  OBVIOUS
<1>2. PICK s : s = todo'[r]
  OBVIOUS
<1>3. PICK n \in Nat : n = Len(b) /\ Len(s) = n - 1 /\ n > 0
  <2>1. Len(todo[r]) \in Nat /\ Len(todo[r]) # 0
    BY NewlineMoves, EmptySeq DEF JournalInv, JournalTypes
  <2> QED BY <1>1, <1>2, <2>1, NewlineMoves
<1>4. \A i \in 1..n - 1 : i + 1 \in 1..n /\ s[i] = b[i + 1]
  BY <1>1, <1>2, <1>3, NewlineMoves
<1>5. caseNo'[r] = caseNo[r] /\ Waiting(r)
  BY NewlineMoves DEF JournalInv
<1>6. \A i \in 1..n - 1 : Given(r, s[i])'
  <2> SUFFICES ASSUME NEW i \in 1..n - 1 PROVE Given(r, s[i])'
    OBVIOUS
  <2>1. Given(r, s[i])
    BY <1>1, <1>3, <1>4, <1>5 DEF Waiting
  <2> QED BY <2>1, GivenStays
<1>7. \A i, j \in 1..n - 1 : s[i] = s[j] => i = j
  <2> SUFFICES ASSUME NEW i \in 1..n - 1, NEW j \in 1..n - 1, s[i] = s[j] PROVE i = j
    OBVIOUS
  <2>1. i + 1 \in 1..n /\ j + 1 \in 1..n /\ b[i + 1] = b[j + 1]
    BY <1>4
  <2>2. i + 1 = j + 1
    BY <1>1, <1>3, <1>5, <2>1 DEF Waiting
  <2> QED BY <2>2
<1>8. ASSUME NEW i \in 1..n - 1, i < n - 1
      PROVE  (\E k \in 1..NModes : s[i] = Mode(r, caseNo[r], k)) /\ Ev(s[n - 1]) = "case_complete"
  <2>1. i + 1 \in 1..n /\ i + 1 < n /\ s[i] = b[i + 1] /\ n - 1 \in 1..n - 1 /\ s[n - 1] = b[n - 1 + 1] /\ n - 1 + 1 = n
    BY <1>3, <1>4, <1>8
  <2>2. (\E k \in 1..NModes : b[i + 1] = Mode(r, caseNo[r], k)) /\ Ev(b[n]) = "case_complete"
    BY <1>1, <1>3, <1>5, <2>1 DEF Waiting
  <2> QED BY <2>1, <2>2
<1>9. ASSUME NEW i \in 1..n - 1
      PROVE  /\ Ev(s[i]) = "mode_result" => i < n - 1
             /\ Ev(s[i]) = "case_complete" => s[i] = Commit(r, caseNo[r])
  <2>1. i + 1 \in 1..n /\ s[i] = b[i + 1]
    BY <1>4
  <2>2. /\ Ev(b[i + 1]) = "mode_result" => i + 1 < n
        /\ Ev(b[i + 1]) = "case_complete" => b[i + 1] = Commit(r, caseNo[r])
    BY <1>1, <1>3, <1>5, <2>1 DEF Waiting
  <2> QED BY <2>1, <2>2
<1>10. Len(todo'[r]) = n - 1 /\ todo'[r] = s /\ caseNo'[r] = caseNo[r]
  BY <1>2, <1>3, <1>5
<1> QED BY <1>6, <1>7, <1>8, <1>9, <1>10 DEF Waiting, Mode, Commit

\* What waits keeps its shape.
LEMMA WaitingKept ==
    ASSUME JournalInv, JournalNext, NEW q \in Runs
    PROVE  Waiting(q)'
<1>1. Waiting(q) /\ Grows(q) /\ todo \in [Runs -> Seq(Records)]
  BY StepsGrow DEF JournalInv, JournalTypes
<1>2. ASSUME NEW r \in Runs, Gives(r) PROVE Waiting(q)'
  <2>1. CASE q = r
    BY <1>2, <2>1 DEF Gives
  <2>2. CASE q # r
    BY <1>1, <1>2, <2>2, WaitingStays DEF Gives
  <2> QED BY <2>1, <2>2
<1>3. ASSUME NEW r \in Runs, InsertNewline(r) PROVE Waiting(q)'
  <2>1. CASE q = r
    BY <1>1, <1>3, <2>1, WaitingShifts
  <2>2. CASE q # r
    <3>1. todo'[q] = todo[q] /\ caseNo'[q] = caseNo[q]
      BY <1>1, <1>3, <2>2, NewlineMoves
    <3> QED BY <1>1, <3>1, WaitingStays
  <2> QED BY <2>1, <2>2
<1>4. CASE UNCHANGED <<lines, todo, caseNo>>
  BY <1>1, <1>4, WaitingStays
<1> QED BY <1>2, <1>3, <1>4, StepShapes

\* The line that is being written stays a record's.
LEMMA TailKept ==
    ASSUME JournalInv, JournalNext, ~glued'
    PROVE  ~glued /\ TailTrue'
<1>1. /\ inserted \subseteq Runs /\ todo \in [Runs -> Seq(Records)]
      /\ suiteLock \in Runs \cup {NoRun} /\ NoRun \notin Runs
      /\ (\A r \in Runs : Running(r) <=> suiteLock = r)
      /\ (\A r \in inserted : Running(r) /\ todo[r] # <<>>)
      /\ ~glued => TailTrue
  BY JournalAssumption DEF JournalInv, JournalTypes, JournalTypeOK, OneWriter, Faithful
<1>2. ASSUME NEW r \in Runs, OpenSession(r) PROVE ~glued /\ TailTrue'
  <2>1. CASE suiteLock = NoRun
    <3>1. ~glued /\ tail = <<>> /\ tail' = tail /\ inserted' = inserted /\ inserted = {}
      BY <1>1, <1>2, <2>1 DEF OpenSession
    <3> QED BY <3>1 DEF TailTrue
  <2>2. CASE suiteLock # NoRun
    <3>1. UNCHANGED <<glued, tail, inserted, suiteLock, todo>>
      BY <1>2, <2>2 DEF OpenSession
    <3> QED BY <1>1, <3>1 DEF TailTrue
  <2> QED BY <2>1, <2>2
<1>3. ASSUME NEW r \in Runs, InsertText(r) PROVE ~glued /\ TailTrue'
  <2>1. ~glued /\ suiteLock = r /\ inserted = {} /\ tail = <<>> /\ todo[r] # <<>>
    BY <1>1, <1>3 DEF InsertText, TailTrue
  <2>2. Head(todo[r]) \in Records /\ Head(todo[r]) = todo[r][1]
    BY <1>1, <2>1
  <2>3. tail' = todo[r][1]
    <3>1. tail' = Glue(tail, Head(todo[r]))
      BY <1>3 DEF InsertText
    <3>2. tail \in Seq(Field) /\ Len(tail) <= 4
      BY DEF JournalInv, JournalTypes, JournalTypeOK
    <3> QED BY <2>1, <2>2, <3>1, <3>2, GlueIsALine
  <2>4. inserted' = {r} /\ todo' = todo
    BY <1>3, <2>1 DEF InsertText
  <2> QED BY <2>1, <2>3, <2>4 DEF TailTrue
<1>4. ASSUME NEW r \in Runs, InsertNewline(r) PROVE ~glued /\ TailTrue'
  BY <1>4, NewlineMoves DEF TailTrue
<1>5. ASSUME NEW r \in Runs, RunCase(r) \/ Finish(r) \/ Abandon(r) PROVE ~glued /\ TailTrue'
  <2>1. UNCHANGED <<glued, suiteLock, inserted, tail>> /\ todo[r] = <<>>
    BY <1>5 DEF RunCase, Finish, Abandon, RunnerIdle
  <2>2. \A q \in inserted : todo'[q] = todo[q]
    BY <1>1, <1>5, <2>1 DEF RunCase, Finish, Abandon
  <2> QED BY <1>1, <2>1, <2>2 DEF TailTrue
<1>6. ASSUME NEW r \in Runs, AskCancel(r) \/ RecoveryReads(r) PROVE ~glued /\ TailTrue'
  <2>1. UNCHANGED <<glued, suiteLock, inserted, tail, todo>>
    BY <1>6 DEF AskCancel, RecoveryReads
  <2> QED BY <1>1, <2>1 DEF TailTrue
<1>7. ASSUME NEW r \in Runs, Close(r) PROVE ~glued /\ TailTrue'
  <2>1. suiteLock' = NoRun /\ UNCHANGED <<glued, inserted, tail, todo>>
    BY <1>7 DEF Close
  <2> QED BY <1>1, <2>1 DEF TailTrue
<1>8. ASSUME NEW r \in Runs, Crash(r) PROVE ~glued /\ TailTrue'
  <2>1. suiteLock = r /\ suiteLock' = NoRun /\ inserted' = inserted \ {r} /\ glued' = glued
    BY <1>1, <1>8 DEF Crash
  <2>2. inserted' = {}
    BY <1>1, <2>1
  <2> QED BY <2>1, <2>2 DEF TailTrue
<1>9. CASE RecoveryWrites
  <2>1. UNCHANGED <<glued, suiteLock, inserted, tail, todo>>
    BY <1>9 DEF RecoveryWrites
  <2> QED BY <1>1, <2>1 DEF TailTrue
<1> QED BY <1>2, <1>3, <1>4, <1>5, <1>6, <1>7, <1>8, <1>9 DEF JournalNext

\* Each line stays one that was given, once.
LEMMA LinesKept ==
    ASSUME JournalInv, JournalNext, ~glued
    PROVE  LinesGiven'
<1>1. LinesGiven /\ todo \in [Runs -> Seq(Records)] /\ \A q \in Runs : Grows(q) /\ Waiting(q)
  BY StepsGrow DEF JournalInv, JournalTypes, Faithful
<1>2. PICK old : old = lines
  OBVIOUS
<1>3. \A i \in 1..Len(old) : \E q \in Runs : Given(q, old[i])'
  <2> SUFFICES ASSUME NEW i \in 1..Len(old) PROVE \E q \in Runs : Given(q, old[i])'
    OBVIOUS
  <2>1. PICK q \in Runs : Given(q, old[i])
    BY <1>1, <1>2 DEF LinesGiven
  <2> QED BY <1>1, <2>1, GivenStays
<1>4. /\ \A i, j \in 1..Len(old) : old[i] = old[j] => i = j
      /\ \A q \in Runs : \A i \in 1..Len(old), j \in 1..Len(todo[q]) : old[i] # todo[q][j]
  <2>1. LinesGiven
    BY <1>1
  <2>2. \A i, j \in 1..Len(old) : old[i] = old[j] => i = j
    BY <1>2, <2>1 DEF LinesGiven
  <2>3. \A q \in Runs : \A i \in 1..Len(old), j \in 1..Len(todo[q]) : old[i] # todo[q][j]
    BY <1>2, <2>1 DEF LinesGiven
  <2> QED BY <2>2, <2>3
<1>5. ASSUME NEW r \in Runs, Gives(r) PROVE LinesGiven'
  <2>1. lines' = old /\ \A q \in Runs : q # r => todo'[q] = todo[q]
    BY <1>1, <1>2, <1>5 DEF Gives
  <2>2. ASSUME NEW i \in 1..Len(old), NEW j \in 1..Len(todo'[r]), old[i] = todo'[r][j] PROVE FALSE
    <3>1. RunOf(old[i]) = r /\ ~Given(r, old[i])
      BY <1>5, <2>2 DEF Gives
    <3> QED BY <1>2, <3>1, AllIsKept
  <2>3. \A q \in Runs : \A i \in 1..Len(old), j \in 1..Len(todo'[q]) : old[i] # todo'[q][j]
    BY <1>4, <2>1, <2>2
  <2> QED BY <1>3, <1>4, <2>1, <2>3 DEF LinesGiven
<1>6. ASSUME NEW r \in Runs, InsertNewline(r) PROVE LinesGiven'
  <2>1. PICK x : x = todo[r][1]
    OBVIOUS
  <2>2. PICK new : new = lines'
    OBVIOUS
  <2>3. PICK n \in Nat : /\ Len(old) = n /\ Len(new) = n + 1 /\ new[n + 1] = x
                         /\ \A i \in 1..n : new[i] = old[i]
    <3>1. tail = todo[r][1]
      BY <1>6, NewlineMoves DEF JournalInv, Faithful, TailTrue
    <3> QED BY <1>2, <1>6, <2>1, <2>2, <3>1, NewlineMoves
  <2>4. /\ Len(todo[r]) \in Nat /\ Len(todo[r]) > 0 /\ 1 \in 1..Len(todo[r]) /\ Len(todo'[r]) = Len(todo[r]) - 1
        /\ \A i \in 1..Len(todo'[r]) : i + 1 \in 1..Len(todo[r]) /\ todo'[r][i] = todo[r][i + 1]
    <3>1. Len(todo[r]) \in Nat /\ Len(todo[r]) # 0
      BY <1>1, <1>6, NewlineMoves, EmptySeq
    <3> QED BY <1>6, <3>1, NewlineMoves
  <2>5. \A i \in 1..n : old[i] # x
    BY <1>4, <2>1, <2>3, <2>4
  <2>6. Given(r, x)
    BY <1>1, <2>1, <2>4 DEF Waiting
  <2>7. \A i \in 1..n + 1 : i \in 1..n \/ i = n + 1
    BY <2>3
  <2>8. \A i, j \in 1..n + 1 : new[i] = new[j] => i = j
    BY <1>4, <2>3, <2>5, <2>7
  <2>9. \A i \in 1..n + 1 : \E q \in Runs : Given(q, new[i])'
    <3>1. Given(r, x)'
      BY <1>1, <2>6, GivenStays
    <3>2. ASSUME NEW i \in 1..n PROVE \E q \in Runs : Given(q, new[i])'
      <4>1. PICK q \in Runs : Given(q, old[i])
        BY <1>1, <1>2, <2>3 DEF LinesGiven
      <4>2. Given(q, new[i])
        BY <2>3, <4>1
      <4> QED BY <1>1, <4>2, GivenStays
    <3>3. Given(r, new[n + 1])'
      BY <2>3, <3>1
    <3> SUFFICES ASSUME NEW i \in 1..n + 1 PROVE \E q \in Runs : Given(q, new[i])'
      OBVIOUS
    <3>4. CASE i = n + 1
      BY <3>3, <3>4
    <3> QED BY <2>7, <3>2, <3>4
  <2>10. ASSUME NEW q \in Runs, NEW i \in 1..n + 1, NEW j \in 1..Len(todo'[q]), new[i] = todo'[q][j] PROVE FALSE
    <3>1. CASE q = r
      <4>1. j + 1 \in 1..Len(todo[r]) /\ j + 1 # 1 /\ new[i] = todo[r][j + 1]
        BY <2>4, <2>10, <3>1
      <4>2. CASE i \in 1..n
        BY <1>4, <2>3, <4>1, <4>2
      <4>3. CASE i = n + 1
        BY <1>1, <2>1, <2>3, <2>4, <4>1, <4>3 DEF Waiting
      <4> QED BY <2>7, <4>2, <4>3
    <3>2. CASE q # r
      <4>1. todo'[q] = todo[q]
        BY <1>1, <1>6, <3>2, NewlineMoves
      <4>2. CASE i \in 1..n
        BY <1>4, <2>3, <2>10, <4>1, <4>2
      <4>3. CASE i = n + 1
        <5>1. Given(q, x)
          BY <1>1, <2>3, <2>10, <4>1, <4>3 DEF Waiting
        <5> QED BY <2>6, <3>2, <5>1, GivenFacts
      <4> QED BY <2>7, <4>2, <4>3
    <3> QED BY <3>1, <3>2
  <2> QED BY <2>2, <2>3, <2>8, <2>9, <2>10 DEF LinesGiven
<1>7. CASE UNCHANGED <<lines, todo, caseNo>>
  BY <1>2, <1>3, <1>4, <1>7 DEF LinesGiven
<1> QED BY <1>5, <1>6, <1>7, StepShapes

\* The records of a case stay in the journal or wait.
LEMMA CasesStay ==
    ASSUME JournalInv, JournalNext, ~glued
    PROVE  CasesKept'
<1>1. CasesKept /\ todo \in [Runs -> Seq(Records)] /\ caseNo \in [Runs -> 0..NCases]
  BY DEF JournalInv, JournalTypes, Faithful
<1>2. ASSUME NEW r \in Runs, Gives(r) PROVE CasesKept'
  <2>1. /\ lines' = lines /\ todo[r] = <<>>
        /\ \A q \in Runs : q # r => todo'[q] = todo[q] /\ caseNo'[q] = caseNo[q]
        /\ \A c \in 1..caseNo'[r] : c \notin 1..caseNo[r] =>
              /\ \E i \in 1..Len(todo'[r]) : todo'[r][i] = Commit(r, c)
              /\ \A k \in 1..NModes : \E i \in 1..Len(todo'[r]) : todo'[r][i] = Mode(r, c, k)
    BY <1>1, <1>2 DEF Gives
  <2>2. \A l : ~InTodo(r, l)
    BY <2>1, EmptySeq DEF InTodo
  <2>3. ASSUME NEW q \in Runs, NEW c \in 1..caseNo'[q], NEW l,
               l = Commit(q, c) \/ \E k \in 1..NModes : l = Mode(q, c, k)
        PROVE  InLines(l)' \/ InTodo(q, l)'
    <3>1. CASE c \in 1..caseNo[q]
      <4>1. InLines(l) \/ InTodo(q, l)
        BY <1>1, <2>3, <3>1 DEF CasesKept
      <4> QED BY <2>1, <2>2, <4>1 DEF InLines, InTodo
    <3>2. CASE c \notin 1..caseNo[q]
      <4>1. q = r
        BY <2>1, <2>3, <3>2
      <4>2. \E i \in 1..Len(todo'[r]) : todo'[r][i] = l
        BY <2>1, <2>3, <3>2, <4>1
      <4> QED BY <4>1, <4>2 DEF InTodo
    <3> QED BY <3>1, <3>2
  <2> QED BY <2>3 DEF CasesKept, Commit, Mode
<1>3. ASSUME NEW r \in Runs, InsertNewline(r) PROVE CasesKept'
  <2>1. /\ caseNo' = caseNo /\ Len(lines) \in Nat /\ Len(lines') = Len(lines) + 1
        /\ lines'[Len(lines) + 1] = todo[r][1] /\ \A i \in 1..Len(lines) : lines'[i] = lines[i]
        /\ \A q \in Runs : q # r => todo'[q] = todo[q]
        /\ Len(todo[r]) \in Nat /\ Len(todo'[r]) = Len(todo[r]) - 1
        /\ \A i \in 1..Len(todo[r]) - 1 : todo'[r][i] = todo[r][i + 1]
    <3>1. tail = todo[r][1]
      BY <1>3, NewlineMoves DEF JournalInv, Faithful, TailTrue
    <3> QED BY <1>1, <1>3, <3>1, NewlineMoves
  <2>2. ASSUME NEW q \in Runs, NEW l, InLines(l) \/ InTodo(q, l) PROVE InLines(l)' \/ InTodo(q, l)'
    <3>1. ASSUME NEW i \in 1..Len(lines), lines[i] = l PROVE InLines(l)'
      BY <2>1, <3>1 DEF InLines
    <3>2. ASSUME NEW i \in 1..Len(todo[q]), todo[q][i] = l, q # r PROVE InTodo(q, l)'
      BY <2>1, <3>2 DEF InTodo
    <3>3. ASSUME NEW i \in 1..Len(todo[r]), todo[r][i] = l PROVE InLines(l)' \/ InTodo(r, l)'
      <4>1. CASE i = 1
        <5>1. Len(lines) + 1 \in 1..Len(lines') /\ lines'[Len(lines) + 1] = l
          BY <2>1, <3>3, <4>1
        <5> QED BY <5>1 DEF InLines
      <4>2. CASE i # 1
        <5>1. i - 1 \in 1..Len(todo'[r]) /\ todo'[r][i - 1] = l
          <6>1. i - 1 \in 1..Len(todo[r]) - 1 /\ (i - 1) + 1 = i
            BY <2>1, <4>2
          <6> QED BY <2>1, <3>3, <6>1
        <5> QED BY <5>1 DEF InTodo
      <4> QED BY <4>1, <4>2
    <3> QED BY <2>2, <3>1, <3>2, <3>3 DEF InLines, InTodo
  <2> QED BY <1>1, <2>1, <2>2 DEF CasesKept, Commit, Mode
<1>4. CASE UNCHANGED <<lines, todo, caseNo>>
  BY <1>1, <1>4 DEF CasesKept, InLines, InTodo, Commit, Mode
<1> QED BY <1>2, <1>3, <1>4, StepShapes

\* A commit stays behind its modes, and an end behind all of its run.
LEMMA OrderStays ==
    ASSUME JournalInv, JournalNext, ~glued
    PROVE  ModesFirst' /\ EndsLast'
<1>1. /\ todo \in [Runs -> Seq(Records)] /\ LinesGiven /\ ModesFirst /\ EndsLast
      /\ \A q \in Runs : Waiting(q)
  BY DEF JournalInv, JournalTypes, Faithful
<1>2. ASSUME NEW r \in Runs, Gives(r) PROVE ModesFirst' /\ EndsLast'
  <2>1. lines' = lines /\ session[r] \in {"new", "open"} /\ \A q \in Runs : q # r => todo'[q] = todo[q]
    BY <1>1, <1>2 DEF Gives
  <2>2. ASSUME NEW i \in 1..Len(lines), RunOf(lines[i]) = r, Ev(lines[i]) \in Ends PROVE FALSE
    <3>1. Given(r, lines[i])
      BY <2>2, AllIsKept
    <3> QED BY <2>1, <2>2, <3>1, GivenFacts
  <2>3. ModesFirst'
    <3>1. lines' = lines /\ ModesFirst
      BY <1>1, <2>1
    <3> QED BY <3>1, ZenonT(40) DEF ModesFirst, Commit, Mode, Record
  <2>4. EndsLast'
    BY <1>1, <2>1, <2>2 DEF EndsLast
  <2> QED BY <2>3, <2>4
<1>3. ASSUME NEW r \in Runs, InsertNewline(r) PROVE ModesFirst' /\ EndsLast'
  <2>1. PICK x : x = todo[r][1]
    OBVIOUS
  <2>2. PICK new : new = lines'
    OBVIOUS
  <2>3. PICK n \in Nat : /\ Len(lines) = n /\ Len(new) = n + 1 /\ new[n + 1] = x
                         /\ \A i \in 1..n : new[i] = lines[i]
    <3>1. tail = todo[r][1]
      BY <1>3, NewlineMoves DEF JournalInv, Faithful, TailTrue
    <3> QED BY <1>3, <2>1, <2>2, <3>1, NewlineMoves
  <2>4. PICK m \in Nat : /\ Len(todo[r]) = m /\ m > 0 /\ Len(todo'[r]) = m - 1 /\ todo[r] # <<>>
                         /\ todo'[r] \in Seq(Records)
    <3>1. Len(todo[r]) \in Nat /\ Len(todo[r]) # 0
      BY <1>1, <1>3, NewlineMoves, EmptySeq
    <3> QED BY <1>3, <3>1, NewlineMoves
  <2>5. Given(r, x) /\ RunOf(x) = r
    <3>1. Given(r, x)
      BY <1>1, <2>1, <2>4 DEF Waiting
    <3> QED BY <3>1, GivenFacts
  <2>6. \A i \in 1..n + 1 : i \in 1..n \/ i = n + 1
    BY <2>3
  <2>7. ASSUME 1 < m
        PROVE  /\ Ev(x) = "mode_result" /\ CaseOf(x) = caseNo[r]
               /\ m \in 1..m /\ todo[r][m] = Commit(r, caseNo[r])
    <3>1. 1 \in 1..m /\ m \in 1..m
      BY <2>4
    <3>2. PICK k \in 1..NModes : todo[r][1] = Mode(r, caseNo[r], k)
      BY <1>1, <2>4, <2>7, <3>1 DEF Waiting
    <3>3. todo[r][m] = Commit(r, caseNo[r])
      BY <1>1, <2>4, <2>7, <3>1 DEF Waiting
    <3> QED BY <2>1, <3>1, <3>2, <3>3, ModeRecord
  <2>8. ASSUME Ev(x) = "mode_result" PROVE 1 < m
    BY <1>1, <2>1, <2>4, <2>8 DEF Waiting
  <2>9. ModesFirst'
    <3> SUFFICES ASSUME NEW i \in 1..n + 1, NEW j \in 1..n + 1, NEW q \in Runs, NEW c \in 1..NCases,
                        NEW k \in 1..NModes, new[i] = Commit(q, c), new[j] = Mode(q, c, k)
                 PROVE  j < i
      BY <2>2, <2>3 DEF ModesFirst, Commit, Mode
    <3>1. CASE i \in 1..n /\ j \in 1..n
      BY <1>1, <2>3, <3>1 DEF ModesFirst
    <3>2. CASE i = n + 1 /\ j \in 1..n
      BY <2>3, <3>2
    <3>3. CASE i \in 1..n /\ j = n + 1
      <4>1. Ev(x) = "mode_result" /\ CaseOf(x) = c /\ RunOf(x) = q
        BY <2>3, <3>3, ModeRecord
      <4>2. q = r /\ 1 < m
        BY <2>5, <2>8, <4>1
      <4>3. c = caseNo[r] /\ m \in 1..m /\ todo[r][m] = Commit(r, caseNo[r])
        BY <2>7, <4>1, <4>2
      <4>4. lines[i] = todo[r][m] /\ i \in 1..Len(lines)
        BY <2>3, <3>3, <4>2, <4>3
      <4> QED BY <1>1, <2>4, <4>3, <4>4 DEF LinesGiven
    <3>4. CASE i = n + 1 /\ j = n + 1
      BY <3>4, CommitRecord, ModeRecord
    <3> QED BY <2>6, <3>1, <3>2, <3>3, <3>4
  <2>10. EndsLast'
    <3> SUFFICES ASSUME NEW i \in 1..n + 1, NEW q \in Runs, RunOf(new[i]) = q, Ev(new[i]) \in Ends
                 PROVE  /\ todo'[q] = <<>>
                        /\ \A j \in 1..n + 1 : i < j => RunOf(new[j]) # q
      BY <2>2, <2>3 DEF EndsLast
    <3>1. CASE i = n + 1
      <4>1. q = r /\ Ev(x) # "mode_result"
        BY <2>3, <2>5, <3>1 DEF Ends
      <4>2. m = 1
        BY <2>4, <2>7, <4>1
      <4>3. Len(todo'[r]) = 0
        BY <2>4, <4>2
      <4>4. todo'[r] = <<>>
        BY <2>4, <4>3, EmptySeq
      <4> QED BY <2>3, <3>1, <4>1, <4>4
    <3>2. CASE i \in 1..n
      <4>1. todo[q] = <<>> /\ \A j \in 1..n : i < j => RunOf(lines[j]) # q
        BY <1>1, <2>3, <3>2 DEF EndsLast
      <4>2. q # r
        BY <2>4, <4>1
      <4>3. todo'[q] = todo[q]
        BY <1>1, <1>3, <4>2, NewlineMoves
      <4>4. \A j \in 1..n + 1 : i < j => RunOf(new[j]) # q
        BY <2>3, <2>5, <2>6, <4>1, <4>2
      <4> QED BY <4>1, <4>3, <4>4
    <3> QED BY <2>6, <3>1, <3>2
  <2> QED BY <2>9, <2>10
<1>4. CASE UNCHANGED <<lines, todo, caseNo>>
  BY <1>1, <1>4, ZenonT(40) DEF ModesFirst, EndsLast, Commit, Mode
<1> QED BY <1>2, <1>3, <1>4, StepShapes

\* Only the run that holds the lock goes on to write.
LEMMA OneWriterKept ==
    ASSUME JournalInv, JournalNext
    PROVE  OneWriter'
<1>1. /\ inserted \subseteq Runs /\ todo \in [Runs -> Seq(Records)] /\ NoRun \notin Runs
      /\ session \in [Runs -> {"new", "busy", "open", "ending", "closed", "dead"}]
      /\ suiteLock \in Runs \cup {NoRun}
      /\ (\A r \in Runs : session[r] \in {"open", "ending"} <=> suiteLock = r)
      /\ (\A r \in inserted : session[r] \in {"open", "ending"} /\ todo[r] # <<>>)
  BY JournalAssumption DEF JournalInv, JournalTypes, JournalTypeOK, OneWriter, Running
<1> SUFFICES /\ (\A r \in Runs : session'[r] \in {"open", "ending"} <=> suiteLock' = r)
             /\ (\A r \in inserted' : session'[r] \in {"open", "ending"} /\ todo'[r] # <<>>)
  BY DEF OneWriter, Running
<1>2. ASSUME NEW r \in Runs, OpenSession(r)
      PROVE  /\ (\A q \in Runs : session'[q] \in {"open", "ending"} <=> suiteLock' = q)
             /\ (\A q \in inserted' : session'[q] \in {"open", "ending"} /\ todo'[q] # <<>>)
  <2>1. CASE suiteLock = NoRun
    <3>1. suiteLock' = r /\ session' = [session EXCEPT ![r] = "open"] /\ inserted' = inserted
      BY <1>2, <2>1 DEF OpenSession
    <3>2. inserted = {}
      BY <1>1, <2>1
    <3> QED BY <1>1, <2>1, <3>1, <3>2
  <2>2. CASE suiteLock # NoRun
    <3>1. session' = [session EXCEPT ![r] = "busy"] /\ session[r] = "new" /\ UNCHANGED <<suiteLock, inserted, todo>>
      BY <1>2, <2>2 DEF OpenSession
    <3> QED BY <1>1, <3>1
  <2> QED BY <2>1, <2>2
<1>3. ASSUME NEW r \in Runs, InsertText(r)
      PROVE  /\ (\A q \in Runs : session'[q] \in {"open", "ending"} <=> suiteLock' = q)
             /\ (\A q \in inserted' : session'[q] \in {"open", "ending"} /\ todo'[q] # <<>>)
  <2>1. /\ session[r] \in {"open", "ending"} /\ todo[r] # <<>> /\ inserted' = inserted \cup {r}
        /\ UNCHANGED <<suiteLock, session, todo>>
    BY <1>3 DEF InsertText, Running
  <2> QED BY <1>1, <2>1
<1>4. ASSUME NEW r \in Runs, InsertNewline(r)
      PROVE  /\ (\A q \in Runs : session'[q] \in {"open", "ending"} <=> suiteLock' = q)
             /\ (\A q \in inserted' : session'[q] \in {"open", "ending"} /\ todo'[q] # <<>>)
  BY <1>1, <1>4, NewlineMoves
<1>5. ASSUME NEW r \in Runs, RunCase(r)
      PROVE  /\ (\A q \in Runs : session'[q] \in {"open", "ending"} <=> suiteLock' = q)
             /\ (\A q \in inserted' : session'[q] \in {"open", "ending"} /\ todo'[q] # <<>>)
  <2>1. todo[r] = <<>> /\ UNCHANGED <<suiteLock, session, inserted>>
    BY <1>5 DEF RunCase, RunnerIdle
  <2>2. \A q \in Runs : q # r => todo'[q] = todo[q]
    BY <1>1, <1>5, CaseGives DEF Gives
  <2> QED BY <1>1, <2>1, <2>2
<1>6. ASSUME NEW r \in Runs, Finish(r) \/ Abandon(r)
      PROVE  /\ (\A q \in Runs : session'[q] \in {"open", "ending"} <=> suiteLock' = q)
             /\ (\A q \in inserted' : session'[q] \in {"open", "ending"} /\ todo'[q] # <<>>)
  <2>1. /\ todo[r] = <<>> /\ session[r] = "open" /\ session' = [session EXCEPT ![r] = "ending"]
        /\ UNCHANGED <<suiteLock, inserted>>
    BY <1>6 DEF Finish, Abandon, RunnerIdle
  <2>2. \A q \in Runs : q # r => todo'[q] = todo[q]
    BY <1>1, <1>6, FinishGives, AbandonGives DEF Gives
  <2> QED BY <1>1, <2>1, <2>2
<1>7. ASSUME NEW r \in Runs, AskCancel(r) \/ RecoveryReads(r)
      PROVE  /\ (\A q \in Runs : session'[q] \in {"open", "ending"} <=> suiteLock' = q)
             /\ (\A q \in inserted' : session'[q] \in {"open", "ending"} /\ todo'[q] # <<>>)
  <2>1. UNCHANGED <<suiteLock, session, inserted, todo>>
    BY <1>7 DEF AskCancel, RecoveryReads
  <2> QED BY <1>1, <2>1
<1>8. ASSUME NEW r \in Runs, Close(r)
      PROVE  /\ (\A q \in Runs : session'[q] \in {"open", "ending"} <=> suiteLock' = q)
             /\ (\A q \in inserted' : session'[q] \in {"open", "ending"} /\ todo'[q] # <<>>)
  <2>1. /\ session[r] = "ending" /\ todo[r] = <<>> /\ session' = [session EXCEPT ![r] = "closed"]
        /\ suiteLock' = NoRun /\ UNCHANGED <<inserted, todo>>
    BY <1>8 DEF Close
  <2> QED BY <1>1, <2>1
<1>9. ASSUME NEW r \in Runs, Crash(r)
      PROVE  /\ (\A q \in Runs : session'[q] \in {"open", "ending"} <=> suiteLock' = q)
             /\ (\A q \in inserted' : session'[q] \in {"open", "ending"} /\ todo'[q] # <<>>)
  <2>1. /\ session[r] \in {"open", "ending"} /\ session' = [session EXCEPT ![r] = "dead"]
        /\ inserted' = inserted \ {r} /\ todo' = todo
        /\ suiteLock' = IF suiteLock = r THEN NoRun ELSE suiteLock
    BY <1>9 DEF Crash, Running
  <2> QED BY <1>1, <2>1
<1>10. ASSUME RecoveryWrites
       PROVE  /\ (\A q \in Runs : session'[q] \in {"open", "ending"} <=> suiteLock' = q)
              /\ (\A q \in inserted' : session'[q] \in {"open", "ending"} /\ todo'[q] # <<>>)
  <2>1. UNCHANGED <<suiteLock, session, inserted, todo>>
    BY <1>10 DEF RecoveryWrites
  <2> QED BY <1>1, <2>1
<1> QED BY <1>2, <1>3, <1>4, <1>5, <1>6, <1>7, <1>8, <1>9, <1>10 DEF JournalNext

\* What waits are records, and no more than a case has.
LEMMA TodoTyped ==
    ASSUME JournalInv, JournalNext
    PROVE  /\ todo' \in [Runs -> Seq(Records)] /\ \A r \in Runs : Len(todo'[r]) <= 1 + NModes
           /\ lines' \in Seq(Seq(Field)) /\ \A i \in 1..Len(lines') : Len(lines'[i]) = 4
<1>1. /\ todo \in [Runs -> Seq(Records)] /\ \A r \in Runs : Len(todo[r]) <= 1 + NModes
      /\ lines \in Seq(Seq(Field)) /\ \A i \in 1..Len(lines) : Len(lines[i]) = 4
  <2>1. lines \in Seq(Seq(Field))
    BY DEF JournalInv, JournalTypes
  <2>2. DOMAIN lines = 1..Len(lines)
    BY <2>1
  <2> QED BY <2>1, <2>2 DEF JournalInv, JournalTypes, JournalTypeOK, NModes
<1>2. ASSUME NEW r \in Runs, Gives(r)
      PROVE  /\ todo' \in [Runs -> Seq(Records)] /\ \A q \in Runs : Len(todo'[q]) <= 1 + NModes
             /\ lines' \in Seq(Seq(Field)) /\ \A i \in 1..Len(lines') : Len(lines'[i]) = 4
  BY <1>1, <1>2 DEF Gives
<1>3. ASSUME NEW r \in Runs, InsertNewline(r)
      PROVE  /\ todo' \in [Runs -> Seq(Records)] /\ \A q \in Runs : Len(todo'[q]) <= 1 + NModes
             /\ lines' \in Seq(Seq(Field)) /\ \A i \in 1..Len(lines') : Len(lines'[i]) = 4
  <2>1. PICK n \in Nat : /\ Len(lines) = n /\ Len(lines') = n + 1 /\ lines'[n + 1] = tail
                         /\ \A i \in 1..n : lines'[i] = lines[i]
    BY <1>3, NewlineMoves
  <2>2. Len(tail) = 4
    BY <1>3, NewlineMoves DEF JournalInv, JournalTypes
  <2>3. \A i \in 1..n + 1 : i \in 1..n \/ i = n + 1
    BY <2>1
  <2>4. \A i \in 1..Len(lines') : Len(lines'[i]) = 4
    BY <1>1, <2>1, <2>2, <2>3
  <2>5. Len(todo'[r]) <= 1 + NModes
    <3>1. PICK m \in Nat : Len(todo[r]) = m /\ Len(todo'[r]) = m - 1 /\ m <= 1 + NModes
      BY <1>1, <1>3, NewlineMoves
    <3> QED BY <3>1, ModesApart
  <2> QED BY <1>1, <1>3, <2>4, <2>5, NewlineMoves
<1>4. ASSUME UNCHANGED <<lines, todo, caseNo>>
      PROVE  /\ todo' \in [Runs -> Seq(Records)] /\ \A q \in Runs : Len(todo'[q]) <= 1 + NModes
             /\ lines' \in Seq(Seq(Field)) /\ \A i \in 1..Len(lines') : Len(lines'[i]) = 4
  BY <1>1, <1>4
<1> QED BY <1>2, <1>3, <1>4, StepShapes

\* What stands after the last newline is at most a line, and a line once its text is in.
LEMMA TailTyped ==
    ASSUME JournalInv, JournalNext
    PROVE  tail' \in Seq(Field) /\ Len(tail') <= 4 /\ (inserted' # {} => Len(tail') = 4)
<1>1. /\ tail \in Seq(Field) /\ Len(tail) <= 4 /\ (inserted # {} => Len(tail) = 4)
      /\ todo \in [Runs -> Seq(Records)]
  BY DEF JournalInv, JournalTypes, JournalTypeOK
<1>2. ASSUME NEW r \in Runs, InsertText(r)
      PROVE  tail' \in Seq(Field) /\ Len(tail') <= 4 /\ (inserted' # {} => Len(tail') = 4)
  <2>1. Head(todo[r]) \in Records /\ tail' = Glue(tail, Head(todo[r]))
    BY <1>1, <1>2 DEF InsertText
  <2>2. tail' \in Seq(Field) /\ Len(tail') = 4
    BY <1>1, <2>1, GlueIsALine
  <2> QED BY <2>2
<1>3. ASSUME NEW r \in Runs, InsertNewline(r)
      PROVE  tail' \in Seq(Field) /\ Len(tail') <= 4 /\ (inserted' # {} => Len(tail') = 4)
  <2>1. tail' = <<>> /\ inserted' = {}
    BY <1>3, NewlineMoves
  <2>2. <<>> \in Seq(Field) /\ Len(<<>>) = 0
    BY EmptySeq
  <2> QED BY <2>1, <2>2
<1>4. ASSUME NEW r \in Runs, Crash(r)
      PROVE  tail' \in Seq(Field) /\ Len(tail') <= 4 /\ (inserted' # {} => Len(tail') = 4)
  <2>1. inserted' = inserted \ {r} /\ r \in Runs /\ suiteLock = r /\ \A q \in inserted : suiteLock = q
    BY <1>4 DEF Crash, JournalInv, OneWriter, JournalTypes, JournalTypeOK
  <2>2. inserted' = {}
    BY <2>1
  <2>3. CASE tail' = tail
    BY <1>1, <2>2, <2>3
  <2>4. CASE tail' # tail
    <3>1. todo[r] # <<>> /\ tail' \in Cuts(Head(todo[r]))
      BY <1>4, <2>4 DEF Crash
    <3>2. Head(todo[r]) \in Records
      BY <1>1, <3>1
    <3> QED BY <2>2, <3>1, <3>2, CutsAreLines
  <2> QED BY <2>3, <2>4
<1>5. ASSUME NEW r \in Runs, \/ OpenSession(r) \/ RunCase(r) \/ AskCancel(r) \/ Finish(r)
                             \/ Abandon(r) \/ Close(r) \/ RecoveryReads(r)
      PROVE  tail' \in Seq(Field) /\ Len(tail') <= 4 /\ (inserted' # {} => Len(tail') = 4)
  <2>1. tail' = tail /\ inserted' = inserted
    BY <1>5 DEF OpenSession, RunCase, AskCancel, Finish, Abandon, Close, RecoveryReads
  <2> QED BY <1>1, <2>1
<1>6. ASSUME RecoveryWrites
      PROVE  tail' \in Seq(Field) /\ Len(tail') <= 4 /\ (inserted' # {} => Len(tail') = 4)
  <2>1. tail' = tail /\ inserted' = inserted
    BY <1>6 DEF RecoveryWrites
  <2> QED BY <1>1, <2>1
<1> QED BY <1>2, <1>3, <1>4, <1>5, <1>6 DEF JournalNext

\* The state of the sessions and of their runs, on its own.
RunsTyped ==
    /\ suiteLock \in Runs \cup {NoRun}
    /\ session \in [Runs -> {"new", "busy", "open", "ending", "closed", "dead"}]
    /\ caseNo \in [Runs -> 0..NCases]
    /\ inserted \subseteq Runs /\ cancelAsked \subseteq Runs /\ anyCancelled \subseteq cancelAsked
    /\ abandoned \subseteq Runs
    /\ \A r \in Runs : session[r] \in {"new", "busy"} => caseNo[r] = 0 /\ todo[r] = <<>>

\* A case was cancelled only when a mode was.
LEMMA CancelledCase ==
    ASSUME NEW modes, Aggregate(modes) = "CANCELLED"
    PROVE  "CANCELLED" \in Range(modes)
BY DEF Aggregate

\* Every step keeps it.
LEMMA RunsStayTyped ==
    ASSUME JournalInv, JournalNext
    PROVE  RunsTyped'
<1>1. RunsTyped /\ todo \in [Runs -> Seq(Records)] /\ NCases \in Nat
  BY JournalAssumption DEF JournalInv, JournalTypes, JournalTypeOK, RunsTyped
<1>2. ASSUME NEW r \in Runs, OpenSession(r) PROVE RunsTyped'
  <2>1. CASE suiteLock = NoRun
    <3>1. /\ suiteLock' = r /\ session' = [session EXCEPT ![r] = "open"]
          /\ \E b : todo' = [todo EXCEPT ![r] = b]
          /\ UNCHANGED <<inserted, caseNo, cancelAsked, anyCancelled, abandoned>>
      BY <1>2, <2>1 DEF OpenSession, runner
    <3> QED BY <1>1, <3>1 DEF RunsTyped
  <2>2. CASE suiteLock # NoRun
    <3>1. /\ session[r] = "new" /\ session' = [session EXCEPT ![r] = "busy"]
          /\ UNCHANGED <<suiteLock, todo, inserted, caseNo, cancelAsked, anyCancelled, abandoned>>
      BY <1>2, <2>2 DEF OpenSession, runner
    <3> QED BY <1>1, <3>1 DEF RunsTyped
  <2> QED BY <2>1, <2>2
<1>3. ASSUME NEW r \in Runs, InsertText(r) PROVE RunsTyped'
  <2>1. /\ inserted' = inserted \cup {r}
        /\ UNCHANGED <<suiteLock, session, todo, caseNo, cancelAsked, anyCancelled, abandoned>>
    BY <1>3 DEF InsertText, runner
  <2> QED BY <1>1, <2>1 DEF RunsTyped
<1>4. ASSUME NEW r \in Runs, InsertNewline(r) PROVE RunsTyped'
  <2>1. /\ inserted' = {} /\ session[r] \in {"open", "ending"}
        /\ UNCHANGED <<suiteLock, session, caseNo, cancelAsked, anyCancelled, abandoned>>
        /\ \E b : todo' = [todo EXCEPT ![r] = b]
    BY <1>4, NewlineMoves DEF InsertNewline, Running
  <2> QED BY <1>1, <2>1 DEF RunsTyped
<1>5. ASSUME NEW r \in Runs, RunCase(r) PROVE RunsTyped'
  <2>1. /\ session[r] = "open" /\ caseNo[r] < NCases /\ caseNo' = [caseNo EXCEPT ![r] = @ + 1]
        /\ UNCHANGED <<suiteLock, session, inserted, abandoned>>
    BY <1>5 DEF RunCase, RunnerIdle
  <2>2. \E b : todo' = [todo EXCEPT ![r] = b]
    BY <1>5, CaseGives DEF Gives
  <2>3. PICK modes, asked :
            /\ ("CANCELLED" \in Range(modes)) => asked
            /\ cancelAsked' = IF asked THEN cancelAsked \cup {r} ELSE cancelAsked
            /\ anyCancelled' = IF Aggregate(modes) = "CANCELLED" THEN anyCancelled \cup {r} ELSE anyCancelled
    BY <1>5 DEF RunCase
  <2>4. cancelAsked' \subseteq Runs /\ anyCancelled' \subseteq cancelAsked'
    <3>1. CASE Aggregate(modes) = "CANCELLED"
      BY <1>1, <2>3, <3>1, CancelledCase DEF RunsTyped
    <3>2. CASE Aggregate(modes) # "CANCELLED"
      BY <1>1, <2>3, <3>2 DEF RunsTyped
    <3> QED BY <3>1, <3>2
  <2>5. caseNo' \in [Runs -> 0..NCases]
    BY <1>1, <2>1 DEF RunsTyped
  <2>6. \A q \in Runs : session'[q] \in {"new", "busy"} => caseNo'[q] = 0 /\ todo'[q] = <<>>
    BY <1>1, <2>1, <2>2 DEF RunsTyped
  <2> QED BY <1>1, <2>1, <2>4, <2>5, <2>6 DEF RunsTyped
<1>6. ASSUME NEW r \in Runs, AskCancel(r) PROVE RunsTyped'
  <2>1. /\ cancelAsked' = cancelAsked \cup {r}
        /\ UNCHANGED <<suiteLock, session, todo, inserted, caseNo, anyCancelled, abandoned>>
    BY <1>6 DEF AskCancel
  <2> QED BY <1>1, <2>1 DEF RunsTyped
<1>7. ASSUME NEW r \in Runs, Finish(r) \/ Abandon(r) PROVE RunsTyped'
  <2>1. /\ session' = [session EXCEPT ![r] = "ending"]
        /\ UNCHANGED <<suiteLock, inserted, caseNo, cancelAsked, anyCancelled>>
        /\ abandoned' = abandoned \/ abandoned' = abandoned \cup {r}
    BY <1>7 DEF Finish, Abandon, runner
  <2>2. \E b : todo' = [todo EXCEPT ![r] = b]
    BY <1>7, FinishGives, AbandonGives DEF Gives
  <2> QED BY <1>1, <2>1, <2>2 DEF RunsTyped
<1>8. ASSUME NEW r \in Runs, Close(r) PROVE RunsTyped'
  <2>1. /\ session' = [session EXCEPT ![r] = "closed"] /\ suiteLock' = NoRun
        /\ UNCHANGED <<todo, inserted, caseNo, cancelAsked, anyCancelled, abandoned>>
    BY <1>8 DEF Close, runner
  <2> QED BY <1>1, <2>1 DEF RunsTyped
<1>9. ASSUME NEW r \in Runs, Crash(r) PROVE RunsTyped'
  <2>1. /\ session' = [session EXCEPT ![r] = "dead"] /\ inserted' = inserted \ {r}
        /\ suiteLock' = IF suiteLock = r THEN NoRun ELSE suiteLock
        /\ UNCHANGED <<todo, caseNo, cancelAsked, anyCancelled, abandoned>>
    BY <1>9 DEF Crash, runner
  <2> QED BY <1>1, <2>1 DEF RunsTyped
<1>10. ASSUME NEW r \in Runs, RecoveryReads(r) PROVE RunsTyped'
  <2>1. UNCHANGED <<suiteLock, session, todo, inserted, caseNo, cancelAsked, anyCancelled, abandoned>>
    BY <1>10 DEF RecoveryReads, runner
  <2> QED BY <1>1, <2>1 DEF RunsTyped
<1>11. CASE RecoveryWrites
  <2>1. UNCHANGED <<suiteLock, session, todo, inserted, caseNo, cancelAsked, anyCancelled, abandoned>>
    BY <1>11 DEF RecoveryWrites, runner
  <2> QED BY <1>1, <2>1 DEF RunsTyped
<1> QED BY <1>2, <1>3, <1>4, <1>5, <1>6, <1>7, <1>8, <1>9, <1>10, <1>11 DEF JournalNext

\* The types are kept.
LEMMA TypesStay ==
    ASSUME JournalInv, JournalNext
    PROVE  JournalTypes'
<1>1. RunsTyped'
  BY RunsStayTyped
<1>2. DOMAIN lines' = 1..Len(lines')
  BY TodoTyped
<1>3. \A r \in Runs : caseNo'[r] \in 0..NCases
  BY <1>1 DEF RunsTyped
<1>4. JournalTypeOK'
  BY <1>1, <1>2, <1>3, TodoTyped, TailTyped DEF JournalTypeOK, RunsTyped, NModes
<1> QED BY <1>1, <1>4, TodoTyped, TailTyped DEF JournalTypes, RunsTyped

\* What has been read stays read: a journal only grows at its end.
LEMMA ReplayGrows ==
    ASSUME JournalInv, JournalNext, NEW r
    PROVE  /\ Committed(lines, r) \subseteq Committed(lines', r) /\ Terminal(lines, r) \subseteq Terminal(lines', r)
           /\ IsFiniteSet(Committed(lines, r)) /\ IsFiniteSet(Committed(lines', r))
<1>1. PICK n \in Nat : Len(lines) = n /\ DOMAIN lines = 1..n
  BY DEF JournalInv, JournalTypes
<1>2. PICK m \in Nat : Len(lines') = m /\ DOMAIN lines' = 1..m
  BY TodoTyped
<1>3. n <= m /\ \A i \in 1..n : lines'[i] = lines[i]
  <2>1. ASSUME NEW q \in Runs, InsertNewline(q) PROVE n <= m /\ \A i \in 1..n : lines'[i] = lines[i]
    BY <1>1, <1>2, <2>1, NewlineMoves
  <2>2. ASSUME NEW q \in Runs, Gives(q) PROVE n <= m /\ \A i \in 1..n : lines'[i] = lines[i]
    BY <1>1, <1>2, <2>2 DEF Gives
  <2>3. ASSUME UNCHANGED <<lines, todo, caseNo>> PROVE n <= m /\ \A i \in 1..n : lines'[i] = lines[i]
    BY <1>1, <1>2, <2>3
  <2> QED BY <2>1, <2>2, <2>3, StepShapes
<1>4. ASSUME NEW i \in Kept(lines) PROVE i \in 1..n /\ i \in Kept(lines')
  <2>1. i \in 1..n /\ \A j \in 1 .. i - 1 : Id(lines[j]) # Id(lines[i])
    BY <1>1, <1>4 DEF Kept
  <2>2. i \in 1..m /\ \A j \in 1 .. i - 1 : j \in 1..n
    BY <1>1, <1>2, <1>3, <2>1
  <2>3. \A j \in 1 .. i - 1 : Id(lines'[j]) # Id(lines'[i])
    BY <1>3, <2>1, <2>2
  <2> QED BY <1>2, <2>1, <2>2, <2>3 DEF Kept
<1>5. ASSUME NEW ev PROVE ReplayOf(lines, r, ev) \subseteq ReplayOf(lines', r, ev)
  BY <1>3, <1>4 DEF ReplayOf
<1>6. Committed(lines, r) \subseteq 1..n /\ Committed(lines', r) \subseteq 1..m
  BY <1>1, <1>2 DEF Committed, ReplayOf, Kept
<1>7. IsFiniteSet(1..n) /\ IsFiniteSet(1..m)
  <2>1. 1 \in Int /\ n \in Int /\ m \in Int
    OBVIOUS
  <2> QED BY <2>1, FS_Interval
<1>8. IsFiniteSet(Committed(lines, r)) /\ IsFiniteSet(Committed(lines', r))
  BY <1>6, <1>7, FS_Subset
<1> QED BY <1>5, <1>8 DEF Committed, Terminal

\* So a summary that was backed stays so.
LEMMA BackedStays ==
    ASSUME JournalInv, JournalNext, NEW s, Backed(s)
    PROVE  Backed(s)'
<1> SUFFICES ASSUME s.run # NoRun
             PROVE  /\ s.run \in Runs /\ s.committed \in Nat
                    /\ s.committed <= Cardinality(Committed(lines', s.run))
                    /\ s.finished => Terminal(lines', s.run) # {}
  BY DEF Backed
<1>1. PICK r \in Runs : r = s.run
  BY DEF Backed
<1> DEFINE A == Committed(lines, r)
           B == Committed(lines', r)
<1>2. /\ A \subseteq B /\ IsFiniteSet(A) /\ IsFiniteSet(B) /\ Terminal(lines, r) \subseteq Terminal(lines', r)
  BY ReplayGrows
<1>3. /\ s.committed \in Nat /\ s.committed <= Cardinality(A)
      /\ s.finished => Terminal(lines, r) # {}
  BY <1>1 DEF Backed
<1> HIDE DEF A, B
<1>4. Cardinality(A) \in Nat /\ Cardinality(B) \in Nat /\ Cardinality(A) <= Cardinality(B)
  BY <1>2, FS_Subset, FS_CardinalityType
<1>5. s.committed <= Cardinality(B)
  BY <1>3, <1>4
<1> QED BY <1>1, <1>2, <1>3, <1>5 DEF B

\* A summary that is built is backed.
LEMMA BuiltIsBacked ==
    ASSUME JournalInv, JournalNext, NEW r \in Runs
    PROVE  Backed(BuildSummary(r))
<1>1. Cardinality(Committed(lines, r)) \in Nat
  BY ReplayGrows, FS_CardinalityType
<1>2. PICK s : s = BuildSummary(r)
  OBVIOUS
<1>3. /\ s.run = r /\ s.committed = Cardinality(Committed(lines, r))
      /\ s.finished <=> Terminal(lines, r) # {}
  BY <1>2 DEF BuildSummary
<1>4. s.committed <= Cardinality(Committed(lines, s.run))
  BY <1>1, <1>3
<1>5. Backed(s)
  BY <1>1, <1>3, <1>4 DEF Backed
<1> QED BY <1>2, <1>5

\* Both summaries stay backed.
LEMMA SummariesKept ==
    ASSUME JournalInv, JournalNext
    PROVE  Backed(summary)' /\ Backed(recovery)'
<1>1. PICK s : s = summary
  OBVIOUS
<1>2. PICK t : t = recovery
  OBVIOUS
<1>3. Backed(s)' /\ Backed(t)'
  BY <1>1, <1>2, BackedStays DEF JournalInv
<1>4. \A r \in Runs : \A b : b = BuildSummary(r) => Backed(b)'
  <2> SUFFICES ASSUME NEW r \in Runs, NEW b, b = BuildSummary(r) PROVE Backed(b)'
    OBVIOUS
  <2>1. Backed(b)
    BY BuiltIsBacked
  <2> QED BY <2>1, BackedStays
<1>5. /\ \A b : b = summary' => (Backed(b)' => Backed(summary)')
      /\ \A b : b = recovery' => (Backed(b)' => Backed(recovery)')
  BY DEF Backed
<1>6. ASSUME NEW r \in Runs, Close(r) PROVE Backed(summary)' /\ Backed(recovery)'
  <2>1. (summary' = s \/ summary' = BuildSummary(r)) /\ recovery' = t
    BY <1>1, <1>2, <1>6 DEF Close
  <2> QED BY <1>3, <1>4, <1>5, <2>1
<1>7. ASSUME NEW r \in Runs, RecoveryReads(r) PROVE Backed(summary)' /\ Backed(recovery)'
  <2>1. recovery' = BuildSummary(r) /\ summary' = s
    BY <1>1, <1>7 DEF RecoveryReads
  <2> QED BY <1>3, <1>4, <1>5, <2>1
<1>8. CASE RecoveryWrites
  <2>1. summary' = t /\ recovery'.run = NoRun
    BY <1>2, <1>8 DEF RecoveryWrites
  <2>2. Backed(recovery)'
    BY <2>1 DEF Backed
  <2> QED BY <1>3, <1>5, <2>1, <2>2
<1>9. ASSUME NEW r \in Runs, \/ OpenSession(r) \/ InsertText(r) \/ InsertNewline(r) \/ RunCase(r)
                             \/ AskCancel(r) \/ Finish(r) \/ Abandon(r) \/ Crash(r)
      PROVE  Backed(summary)' /\ Backed(recovery)'
  <2>1. summary' = s /\ recovery' = t
    BY <1>1, <1>2, <1>9 DEF OpenSession, InsertText, InsertNewline, RunCase, AskCancel, Finish, Abandon, Crash, quiet
  <2> QED BY <1>3, <1>5, <2>1
<1> QED BY <1>6, <1>7, <1>8, <1>9 DEF JournalNext

\* Every step keeps the invariant.
LEMMA JournalStays ==
    ASSUME JournalInv, [JournalNext]_journalVars
    PROVE  JournalInv'
<1>1. ASSUME JournalNext PROVE JournalInv'
  <2>1. JournalTypes' /\ OneWriter' /\ Backed(summary)' /\ Backed(recovery)'
    BY <1>1, TypesStay, OneWriterKept, SummariesKept
  <2>2. \A r \in Runs : Waiting(r)'
    BY <1>1, WaitingKept
  <2>3. ASSUME ~glued' PROVE Faithful'
    BY <1>1, <2>3, TailKept, LinesKept, CasesStay, OrderStays DEF Faithful
  <2> QED BY <2>1, <2>2, <2>3 DEF JournalInv
<1>2. ASSUME UNCHANGED journalVars PROVE JournalInv'
  <2>1. UNCHANGED <<lines, tail, suiteLock, session, todo, inserted, caseNo, cancelAsked,
                    anyCancelled, abandoned, summary, recovery, glued>>
    BY <1>2 DEF journalVars
  <2>2. JournalTypes' /\ OneWriter' /\ Backed(summary)' /\ Backed(recovery)'
    BY <2>1 DEF JournalInv, JournalTypes, JournalTypeOK, OneWriter, Running, Backed
  <2>3. \A q \in Runs : Grows(q)
    BY <2>1, JournalAssumption DEF JournalInv, JournalTypes, Grows
  <2>4. \A q \in Runs : Waiting(q)'
    BY <2>1, <2>3, WaitingStays DEF JournalInv
  <2>5. ASSUME ~glued PROVE LinesGiven'
    <3>1. PICK old : old = lines
      OBVIOUS
    <3>2. \A i \in 1..Len(old) : \E q \in Runs : Given(q, old[i])'
      <4> SUFFICES ASSUME NEW i \in 1..Len(old) PROVE \E q \in Runs : Given(q, old[i])'
        OBVIOUS
      <4>1. PICK q \in Runs : Given(q, old[i])
        BY <2>5, <3>1 DEF JournalInv, Faithful, LinesGiven
      <4> QED BY <2>3, <4>1, GivenStays
    <3>3. LinesGiven
      BY <2>5 DEF JournalInv, Faithful
    <3> QED BY <2>1, <3>1, <3>2, <3>3 DEF LinesGiven
  <2>6. ASSUME ~glued PROVE TailTrue' /\ CasesKept' /\ ModesFirst' /\ EndsLast'
    <3>1. TailTrue /\ CasesKept /\ ModesFirst /\ EndsLast
      BY <2>6 DEF JournalInv, Faithful
    <3>2. TailTrue'
      BY <2>1, <3>1 DEF TailTrue
    <3>3. CasesKept'
      BY <2>1, <3>1 DEF CasesKept, InLines, InTodo, Commit, Mode
    <3>4. ModesFirst'
      BY <2>1, <3>1, ZenonT(30) DEF ModesFirst, Commit, Mode
    <3>5. EndsLast'
      BY <2>1, <3>1 DEF EndsLast
    <3> QED BY <3>2, <3>3, <3>4, <3>5
  <2> QED BY <2>1, <2>2, <2>4, <2>5, <2>6 DEF JournalInv, Faithful
<1> QED BY <1>1, <1>2

\* What a crash leaves of a benchmark is read back as it was written, whatever
\* runs share the suite, wherever a process dies and however often a summary is
\* rebuilt, as long as nothing is appended to a cut line.
THEOREM JournalIsTrue == JournalSpec => []JournalTrue
<1>1. JournalInit => JournalInv
  BY JournalBegins
<1>2. JournalInv /\ [JournalNext]_journalVars => JournalInv'
  BY JournalStays
<1>3. JournalInv => JournalTrue
  BY ReplayIsExact, TerminalIsTrue DEF JournalTrue
<1> QED BY <1>1, <1>2, <1>3, PTL DEF JournalSpec

-----------------------------------------------------------------------------
(* The types of what the program keeps.                                       *)

\* The types of the record of a scan, with what they rest on: a run has been started wherever one
\* is under way or finished, so that the baseline sample is of a run.
TelemetryTyped == TelemetryTypeOK /\ (status # "none" => runNo > 0)

\* Nothing has been started at first.
LEMMA TelemetryTypedAtFirst == TelemetryInit => TelemetryTyped
<1> SUFFICES ASSUME TelemetryInit PROVE TelemetryTyped
  OBVIOUS
<1>1. runNo \in Nat /\ sampler \in 0 .. runNo /\ ~(status # "none")
  BY DEF TelemetryInit
<1>2. {samplerOn, query, diskSeen} \subseteq BOOLEAN
  BY DEF TelemetryInit
<1>3. sampled \subseteq [by : 1 .. runNo, disk : BOOLEAN]
  BY DEF TelemetryInit
<1> QED BY <1>1, <1>2, <1>3 DEF TelemetryInit, TelemetryTyped, TelemetryTypeOK

\* A run that starts has the types.
LEMMA StartTyped ==
  ASSUME TelemetryTyped, Start(detail), detail' = detail,
         wpc' \in {"idle", "revalidating", "loading", "scanning", "finished"}
  PROVE  TelemetryTyped'
<1>1. runNo' \in Nat /\ runNo' > 0
  BY DEF TelemetryTyped, TelemetryTypeOK, Start
<1>2. status' = "started" /\ sampled' = {} /\ added' = {} /\ outcome' = {}
  BY DEF Start
<1>3. flags' \subseteq Families \cup Unreset
  BY DEF Start
<1>4. sampler' \in 0 .. runNo'
  BY <1>1 DEF Start
<1>5. samplerOn' \in BOOLEAN /\ query' \in BOOLEAN /\ diskSeen' \in BOOLEAN /\ detail' \in BOOLEAN
  BY DEF Start, TelemetryTyped, TelemetryTypeOK
<1>6. {samplerOn', query', diskSeen'} \subseteq BOOLEAN
  BY <1>5
<1>7. sampled' \subseteq [by : 1 .. runNo', disk : BOOLEAN]
  BY <1>2
<1>8. added' \subseteq Families \cup Unreset /\ outcome' \subseteq Terminals
  BY <1>2
<1> QED BY <1>1, <1>2, <1>3, <1>4, <1>5, <1>6, <1>7, <1>8 DEF TelemetryTyped, TelemetryTypeOK

\* A run that is finalized has them.
LEMMA FinalTyped ==
  ASSUME TelemetryTyped, status # "none", NEW t \in Terminals, FinalizedWith({t}), detail' = detail,
         wpc' \in {"idle", "revalidating", "loading", "scanning", "finished"},
         flags' \subseteq Families \cup Unreset, added' \subseteq Families \cup Unreset
  PROVE  TelemetryTyped'
<1>1. runNo' = runNo /\ runNo \in Nat /\ runNo > 0
  BY DEF TelemetryTyped, TelemetryTypeOK, FinalizedWith
<1>2. status' = "finished" /\ sampler' = 0 /\ query' = FALSE /\ outcome' = outcome \cup {t}
  BY DEF FinalizedWith
<1>3. sampled' \subseteq [by : 1 .. runNo, disk : BOOLEAN]
  <2>1. [by |-> runNo, disk |-> FALSE] \in [by : 1 .. runNo, disk : BOOLEAN]
    BY <1>1
  <2>2. sampled' = {[by |-> runNo, disk |-> FALSE]} \/ sampled' = sampled
    BY DEF FinalizedWith
  <2> QED BY <2>1, <2>2 DEF TelemetryTyped, TelemetryTypeOK
<1>4. samplerOn' \in BOOLEAN /\ diskSeen' \in BOOLEAN /\ detail' \in BOOLEAN
  BY DEF FinalizedWith, TelemetryTyped, TelemetryTypeOK
<1>5. outcome' \subseteq Terminals
  BY <1>2 DEF TelemetryTyped, TelemetryTypeOK
<1>6. {samplerOn', query', diskSeen'} \subseteq BOOLEAN
  BY <1>2, <1>4
<1>7. sampled' \subseteq [by : 1 .. runNo', disk : BOOLEAN] /\ sampler' \in 0 .. runNo' /\ runNo' \in Nat /\ runNo' > 0
  BY <1>1, <1>2, <1>3
<1>8. status' \in {"none", "started", "finished"} /\ detail' \in BOOLEAN
  BY <1>2, <1>4
<1> QED BY <1>5, <1>6, <1>7, <1>8 DEF TelemetryTyped, TelemetryTypeOK

\* So has one that is aborted, or is finished already.
LEMMA AbortTyped ==
  ASSUME TelemetryTyped, AbortUnfinished, detail' = detail, wpc' = "idle"
  PROVE  TelemetryTyped'
<1>1. CASE status = "started"
  <2>1. "cancelled" \in Terminals
    BY DEF Terminals
  <2>2. FinalizedWith({"cancelled"}) /\ UNCHANGED <<flags, added>>
    BY <1>1 DEF AbortUnfinished
  <2>3. flags \subseteq Families \cup Unreset /\ added \subseteq Families \cup Unreset
    BY DEF TelemetryTyped, TelemetryTypeOK
  <2> QED BY <1>1, <2>1, <2>2, <2>3, FinalTyped
<1>2. CASE status # "started"
  BY <1>2 DEF AbortUnfinished, TelemetryTyped, TelemetryTypeOK
<1> QED BY <1>1, <1>2

\* Each step keeps the types.
LEMMA TelemetryTypedStep == RecordInv /\ TelemetryTyped /\ [TelemetryNext]_telemetryVars => TelemetryTyped'
<1> SUFFICES ASSUME RecordInv, TelemetryTyped, [TelemetryNext]_telemetryVars
             PROVE  TelemetryTyped'
  OBVIOUS
<1>1. CASE BeginRevalidation
  BY <1>1, StartTyped DEF BeginRevalidation
<1>2. CASE BeginScan
  BY <1>2, StartTyped DEF BeginScan
<1>3. CASE RevalidationCancelled \/ Throw
  BY <1>3, AbortTyped DEF RevalidationCancelled, Throw
<1>4. CASE RevalidationDone
  BY <1>4 DEF RevalidationDone, TelemetryTyped, TelemetryTypeOK
<1>5. CASE ApplyDisplayed
  BY <1>5 DEF ApplyDisplayed, TelemetryTyped, TelemetryTypeOK, Unreset
<1>6. CASE SampleOnce
  <2>1. [by |-> sampler, disk |-> query] \in [by : 1 .. runNo, disk : BOOLEAN]
    BY <1>6 DEF SampleOnce, TelemetryTyped, TelemetryTypeOK
  <2>2. sampled' \subseteq [by : 1 .. runNo, disk : BOOLEAN]
    BY <1>6, <2>1 DEF SampleOnce, TelemetryTyped, TelemetryTypeOK
  <2> QED BY <1>6, <2>2 DEF SampleOnce, TelemetryTyped, TelemetryTypeOK
<1>7. ASSUME NEW f \in Families \cup {"plans"}, Add(f) PROVE TelemetryTyped'
  BY <1>7 DEF Add, TelemetryTyped, TelemetryTypeOK, Unreset
<1>8. ASSUME NEW t \in Terminals, FinishScan(t) PROVE TelemetryTyped'
  <2>1. status # "none" /\ FinalizedWith({t}) /\ detail' = detail /\ wpc' = "finished"
    BY <1>8 DEF FinishScan, RecordInv
  <2>2. flags' \subseteq Families \cup Unreset /\ added' \subseteq Families \cup Unreset
    BY <1>8 DEF FinishScan, TelemetryTyped, TelemetryTypeOK, Unreset
  <2> QED BY <2>1, <2>2, FinalTyped
<1>9. CASE UNCHANGED telemetryVars
  BY <1>9 DEF telemetryVars, TelemetryTyped, TelemetryTypeOK
<1> QED
  BY <1>1, <1>2, <1>3, <1>4, <1>5, <1>6, <1>7, <1>8, <1>9 DEF TelemetryNext

\* The counters of the profile are within their bounds: the drift of an engine that runs one scan
\* only by the bound on EndFed.
Counted ==
  /\ swaps \in 0..MaxSwaps
  /\ \A e \in Engines : drift[e] <= Repetitions

\* Nothing is counted at first.
LEMMA CountedAtFirst == ProfileInit => Counted
<1>1. MaxSwaps \in Nat /\ Repetitions \in Nat
  BY ProfileAssumption
<1> QED BY <1>1 DEF ProfileInit, Counted

\* Each step keeps the bounds.
LEMMA CountedStep == ProfileInv /\ Counted /\ [ProfileNext]_profileVars => Counted'
<1> SUFFICES ASSUME ProfileInv, Counted, [ProfileNext]_profileVars
             PROVE  Counted'
  OBVIOUS
<1>1. MaxSwaps \in Nat /\ Repetitions \in Nat /\ drift \in [Engines -> Nat]
  BY ProfileAssumption DEF ProfileInv, Typed
<1>2. ASSUME NEW g \in Machine, ChangeGpu(g) PROVE Counted'
  BY <1>1, <1>2 DEF ChangeGpu, Counted
<1>3. ASSUME NEW e \in Engines, EndUnfed(e) \/ KillScan(e) PROVE Counted'
  <2>1. swaps' = swaps /\ drift' = [drift EXCEPT ![e] = 0]
    BY <1>3 DEF EndUnfed, KillScan
  <2> QED BY <1>1, <2>1 DEF Counted
<1>4. ASSUME NEW e \in Engines, NEW live \in Levels, EndFed(e, live) PROVE Counted'
  <2>1. swaps' = swaps /\ drift[e] < Repetitions
    BY <1>4 DEF EndFed
  <2>2. PICK n : drift' = [drift EXCEPT ![e] = n] /\ n \in {0, 1, drift[e] + 1}
    <3>1. DEFINE dev == live # scan[e].base.level
                 fires == Deviations(tracker[e], file.gpu, dev) >= Repetitions
                 m == IF ~dev \/ fires THEN 0
                      ELSE (IF tracker[e].id = file.gpu \/ ~reuse THEN drift[e] ELSE 0) + 1
    <3>2. drift' = [drift EXCEPT ![e] = m]
      BY <1>4 DEF EndFed
    <3>3. m \in {0, 1, drift[e] + 1}
      BY <1>1
    <3> QED BY <3>2, <3>3
  <2>3. n <= Repetitions
    BY <1>1, <2>1, <2>2, Numbers
  <2> QED BY <1>1, <2>1, <2>2, <2>3 DEF Counted
<1>5. CASE UNCHANGED <<swaps, drift>>
  BY <1>5 DEF Counted
<1>6. ASSUME NEW e \in Engines, NEW gpuOn, NEW found, NEW level,
             BeginProfiledScan(e, gpuOn) \/ Calibrate(e, found, level) \/ Recalibrate(e, found, level)
      PROVE  Counted'
  BY <1>5, <1>6 DEF BeginProfiledScan, Calibrate, Recalibrate
<1>7. CASE DayPasses \/ UNCHANGED profileVars
  BY <1>5, <1>7 DEF DayPasses, profileVars
<1> QED BY <1>2, <1>3, <1>4, <1>6, <1>7 DEF ProfileNext

\* These are the types of the profile.
LEMMA ProfileTypes == ProfileInv /\ Counted => ProfileTypeOK
<1> SUFFICES ASSUME ProfileInv, Counted PROVE ProfileTypeOK
  OBVIOUS
<1>1. tracker \in [Engines -> [count: 0..(Repetitions - 1), id: Machine]]
  <2>1. tracker \in [Engines -> [count: Nat, id: Machine]] /\ \A e \in Engines : tracker[e].count < Repetitions
    BY DEF ProfileInv, Typed, EngineOK
  <2>2. ASSUME NEW e \in Engines PROVE tracker[e] \in [count: 0..(Repetitions - 1), id: Machine]
    <3>1. tracker[e] \in [count: Nat, id: Machine] /\ tracker[e].count < Repetitions
      BY <2>1
    <3>2. tracker[e].count \in 0..(Repetitions - 1)
      BY <3>1, Numbers
    <3> QED BY <3>1, <3>2
  <2> QED BY <2>1, <2>2
<1>2. drift \in [Engines -> 0..Repetitions]
  <2>1. drift \in [Engines -> Nat] /\ \A e \in Engines : drift[e] <= Repetitions
    BY DEF ProfileInv, Typed, Counted
  <2> QED BY <2>1, Numbers
<1>3. /\ gpu \in Machine /\ today \in 0..MaxProfileDays /\ reuse \in BOOLEAN /\ file \in File \cup {NoFile}
      /\ scan \in [Engines -> [phase: {"idle", "calibrating", "running", "recalibrating"},
                               had: BOOLEAN, old: Rate \cup {NoRate}, base: Rate \cup {NoRate},
                               gpuOn: BOOLEAN, seen: File \cup {NoFile}, live: Levels \cup {0},
                               began: 0..MaxProfileDays]]
  BY DEF ProfileInv, Typed, Scan, Rates, Days
<1> QED BY <1>1, <1>2, <1>3 DEF ProfileTypeOK, Counted

-----------------------------------------------------------------------------
(* BenchmarkMining: a candidate of the report has numbers.                     *)

\* A finite set of integers that is not empty has a least and a greatest one.
LEMMA EndsOf ==
    ASSUME NEW S \in SUBSET Int, IsFiniteSet(S), S # {}
    PROVE  /\ \E a \in S : \A b \in S : a <= b
           /\ \E a \in S : \A b \in S : b <= a
<1> DEFINE below(a) == {b \in S : b < a}
           above(a) == {b \in S : b > a}
<1>1. \A a \in S : /\ IsFiniteSet(below(a)) /\ Cardinality(below(a)) \in Nat
                   /\ IsFiniteSet(above(a)) /\ Cardinality(above(a)) \in Nat
  <2> SUFFICES ASSUME NEW a \in S
               PROVE  /\ IsFiniteSet(below(a)) /\ Cardinality(below(a)) \in Nat
                      /\ IsFiniteSet(above(a)) /\ Cardinality(above(a)) \in Nat
    OBVIOUS
  <2>1. below(a) \in SUBSET S /\ above(a) \in SUBSET S
    OBVIOUS
  <2> HIDE DEF below, above
  <2> QED BY <2>1, FS_Subset, FS_CardinalityType
<1>2. \E a \in S : \A b \in S : a <= b
  <2> DEFINE Counts == {Cardinality(below(a)) : a \in S}
  <2>1. Counts \in SUBSET Nat /\ Counts # {}
    <3> HIDE DEF below
    <3> QED BY <1>1
  <2>2. PICK m \in Counts : \A c \in Counts : m <= c
    <3> HIDE DEF Counts
    <3> QED BY <2>1, LeastIs
  <2>3. PICK a \in S : m = Cardinality(below(a))
    OBVIOUS
  <2>4. ASSUME NEW b \in S, b < a PROVE FALSE
    <3>3. a \in Int /\ b \in Int /\ \A x \in S : x \in Int
      OBVIOUS
    <3>1. b \in below(a) /\ b \notin below(b)
      BY <2>4, <3>3
    <3>2. below(b) \in SUBSET below(a)
      <4> SUFFICES ASSUME NEW x \in S, x < b PROVE x < a
        OBVIOUS
      <4> QED BY <2>4, <3>3
    <3>4. m <= Cardinality(below(b))
      BY <2>2
    <3> HIDE DEF below
    <3>5. below(b) # below(a)
      BY <3>1
    <3>6. PICK x, y \in Nat : x = Cardinality(below(b)) /\ y = Cardinality(below(a))
      BY <1>1
    <3>7. x <= y /\ x # y
      BY <1>1, <3>2, <3>5, <3>6, FS_Subset
    <3>8. y <= x
      BY <2>3, <3>4, <3>6
    <3> QED BY <3>7, <3>8
  <2> QED BY <2>4
<1>3. \E a \in S : \A b \in S : b <= a
  <2> DEFINE Counts == {Cardinality(above(a)) : a \in S}
  <2>1. Counts \in SUBSET Nat /\ Counts # {}
    <3> HIDE DEF above
    <3> QED BY <1>1
  <2>2. PICK m \in Counts : \A c \in Counts : m <= c
    <3> HIDE DEF Counts
    <3> QED BY <2>1, LeastIs
  <2>3. PICK a \in S : m = Cardinality(above(a))
    OBVIOUS
  <2>4. ASSUME NEW b \in S, b > a PROVE FALSE
    <3>3. a \in Int /\ b \in Int /\ \A x \in S : x \in Int
      OBVIOUS
    <3>1. b \in above(a) /\ b \notin above(b)
      BY <2>4, <3>3
    <3>2. above(b) \in SUBSET above(a)
      <4> SUFFICES ASSUME NEW x \in S, x > b PROVE x > a
        OBVIOUS
      <4> QED BY <2>4, <3>3
    <3>4. m <= Cardinality(above(b))
      BY <2>2
    <3> HIDE DEF above
    <3>5. above(b) # above(a)
      BY <3>1
    <3>6. PICK x, y \in Nat : x = Cardinality(above(b)) /\ y = Cardinality(above(a))
      BY <1>1
    <3>7. x <= y /\ x # y
      BY <1>1, <3>2, <3>5, <3>6, FS_Subset
    <3>8. y <= x
      BY <2>3, <3>4, <3>6
    <3> QED BY <3>7, <3>8
  <2> QED BY <2>4
<1> QED BY <1>2, <1>3

\* A cell whose samples are finitely many and all have a number.
Measured(cell) == IsFiniteSet(cell.samples) /\ \A t \in cell.samples : cell.value[t] \in Int

\* In ascending order there is a k-th duration for each k up to the number of samples.
LEMMA NthIs ==
    ASSUME NEW cell, Measured(cell), NEW k \in 1..Cardinality(cell.samples)
    PROVE  /\ Nth(cell, k) \in {cell.value[t] : t \in cell.samples}
           /\ Cardinality({t \in cell.samples : cell.value[t] < Nth(cell, k)}) < k
           /\ k <= Cardinality({t \in cell.samples : cell.value[t] <= Nth(cell, k)})
           /\ Nth(cell, k) \in Int
<1> DEFINE T == cell.samples
           f == [t \in T |-> cell.value[t]]
           V == {f[t] : t \in T}
           below(v) == {t \in T : f[t] < v}
           upTo(v) == {t \in T : f[t] <= v}
           n == Cardinality(T)
           Enough == {v \in V : k <= Cardinality(upTo(v))}
<1>1. IsFiniteSet(T) /\ n \in Nat /\ k \in Nat /\ 1 <= k /\ k <= n
  BY FS_CardinalityType DEF Measured
<1>2. V \in SUBSET Int /\ IsFiniteSet(V)
  <2>1. f \in Surjection(T, V)
    <3> HIDE DEF T
    <3> QED BY Fun_IsSurj
  <2>2. V \in SUBSET Int
    BY DEF Measured
  <2> HIDE DEF f, V, T
  <2> QED BY <1>1, <2>1, <2>2, FS_Surjection
<1>3. V # {}
  <2>1. T # {}
    BY <1>1, FS_EmptySet
  <2> QED BY <2>1
<1>4. \A v \in V : /\ IsFiniteSet(below(v)) /\ Cardinality(below(v)) \in Nat
                   /\ IsFiniteSet(upTo(v)) /\ Cardinality(upTo(v)) \in Nat
  <2> SUFFICES ASSUME NEW v \in V
               PROVE  /\ IsFiniteSet(below(v)) /\ Cardinality(below(v)) \in Nat
                      /\ IsFiniteSet(upTo(v)) /\ Cardinality(upTo(v)) \in Nat
    OBVIOUS
  <2>1. below(v) \in SUBSET T /\ upTo(v) \in SUBSET T
    OBVIOUS
  <2> HIDE DEF below, upTo, T, V
  <2> QED BY <1>1, <2>1, FS_Subset, FS_CardinalityType
<1>5. \A t \in T : f[t] \in V
  OBVIOUS
<1>6. \A v : below(v) = {t \in T : f[t] < v} /\ upTo(v) = {t \in T : f[t] <= v}
  OBVIOUS
<1>7. \A v \in V : \E t \in T : f[t] = v
  OBVIOUS
<1>8. /\ Nth(cell, k) = CHOOSE v \in V : Cardinality(below(v)) < k /\ k <= Cardinality(upTo(v))
      /\ V = {cell.value[t] : t \in cell.samples}
      /\ \A v : /\ below(v) = {t \in cell.samples : cell.value[t] < v}
                /\ upTo(v) = {t \in cell.samples : cell.value[t] <= v}
  <2>1. V = {cell.value[t] : t \in cell.samples}
    OBVIOUS
  <2>2. \A v : /\ below(v) = {t \in cell.samples : cell.value[t] < v}
               /\ upTo(v) = {t \in cell.samples : cell.value[t] <= v}
    OBVIOUS
  <2> HIDE DEF V, below, upTo, T
  <2> QED BY <2>1, <2>2 DEF Nth
<1> HIDE DEF f, T, V, below, upTo, n
<1>9. Enough # {}
  <2>1. PICK v \in V : \A w \in V : w <= v
    BY <1>2, <1>3, EndsOf
  <2>2. upTo(v) = T
    BY <1>5, <1>6, <2>1
  <2>3. k <= Cardinality(upTo(v))
    BY <1>1, <2>2 DEF n
  <2> QED BY <2>3
<1>10. PICK v \in Enough : \A w \in Enough : v <= w
  <2>1. Enough \in SUBSET V
    OBVIOUS
  <2> HIDE DEF Enough
  <2>2. IsFiniteSet(Enough) /\ Enough \in SUBSET Int
    BY <1>2, <2>1, FS_Subset
  <2> QED BY <1>9, <2>2, EndsOf
<1>11. v \in V /\ v \in Int /\ k <= Cardinality(upTo(v))
  BY <1>2
<1>12. Cardinality(below(v)) < k
  <2> DEFINE Less == {w \in V : w < v}
  <2>1. CASE Less = {}
    <3>1. below(v) = {}
      BY <1>5, <1>6, <2>1
    <3>2. Cardinality(below(v)) = 0
      BY <3>1, FS_EmptySet
    <3> QED BY <1>1, <3>2
  <2>2. CASE Less # {}
    <3>1. PICK w \in Less : \A u \in Less : u <= w
      <4>1. Less \in SUBSET V
        OBVIOUS
      <4> HIDE DEF Less
      <4>2. IsFiniteSet(Less) /\ Less \in SUBSET Int
        BY <1>2, <4>1, FS_Subset
      <4> QED BY <2>2, <4>2, EndsOf
    <3>2. w \in V /\ w \in Int /\ w < v
      BY <1>2
    <3>3. below(v) \subseteq upTo(w)
      <4> SUFFICES ASSUME NEW t \in T, f[t] < v PROVE f[t] <= w
        BY <1>6
      <4>1. f[t] \in Less
        BY <1>5
      <4> QED BY <3>1, <4>1
    <3>4. Cardinality(below(v)) <= Cardinality(upTo(w))
      BY <1>4, <1>11, <3>2, <3>3, FS_Subset
    <3>5. ~(k <= Cardinality(upTo(w)))
      <4>1. w \notin Enough
        <5>1. ~(v <= w)
          BY <1>11, <3>2
        <5> HIDE DEF Enough
        <5> QED BY <1>10, <5>1
      <4> QED BY <3>2, <4>1
    <3>6. Cardinality(upTo(w)) \in Nat /\ Cardinality(below(v)) \in Nat
      BY <1>4, <1>11, <3>2
    <3> QED BY <1>1, <3>4, <3>5, <3>6
  <2> QED BY <2>1, <2>2
<1>13. Nth(cell, k) \in V /\ Cardinality(below(Nth(cell, k))) < k /\ k <= Cardinality(upTo(Nth(cell, k)))
  BY <1>8, <1>11, <1>12
<1>14. Nth(cell, k) \in Int
  BY <1>2, <1>13
<1> QED BY <1>8, <1>13, <1>14

\* The sums of the first durations are numbers.
LEMMA SumIs ==
    ASSUME NEW cell, Measured(cell)
    PROVE  \A k \in 0..Cardinality(cell.samples) : SumTo(cell)[k] \in Int
<1> DEFINE N == Cardinality(cell.samples)
           nth == [k \in 1..N |-> Nth(cell, k)]
           step == [u \in (1..N) \X Int |-> u[2] + nth[u[1]]]
           Is(f) == f = [k \in 0..N |-> IF k = 0 THEN 0 ELSE f[k - 1] + Nth(cell, k)]
           sum == CHOOSE f : Is(f)
<1>1. N \in Nat /\ \A k \in 0..N : k = 0 \/ (k \in 1..N /\ k - 1 \in 0..N)
  BY FS_CardinalityType DEF Measured
<1>2. \A k \in 1..N : nth[k] \in Int /\ nth[k] = Nth(cell, k)
  BY NthIs
<1>3. SumTo(cell) = sum
  BY DEF SumTo
<1> HIDE DEF nth, N
<1>4. step \in [(1..N) \X Int -> Int]
  BY <1>2
<1>5. PICK f : Solves(f, Int, 0, N, step)
  <2>1. 0 \in Int
    OBVIOUS
  <2> HIDE DEF step
  <2> QED BY <1>1, <1>4, <2>1, Recursion
<1>6. \A k \in 1..N : f[k] = f[k - 1] + Nth(cell, k)
  <2> SUFFICES ASSUME NEW k \in 1..N PROVE f[k] = f[k - 1] + Nth(cell, k)
    OBVIOUS
  <2>1. <<k, f[k - 1]>> \in (1..N) \X Int
    BY <1>1, <1>5 DEF Solves
  <2>2. step[<<k, f[k - 1]>>] = f[k - 1] + nth[k]
    BY <2>1
  <2> QED BY <1>2, <1>5, <2>2 DEF Solves
<1> HIDE DEF step
<1>7. Is(f)
  BY <1>1, <1>5, <1>6 DEF Solves
<1>8. Is(sum)
  <2> HIDE DEF Is
  <2> QED BY <1>7
<1> HIDE DEF sum
<1>9. sum[0] = 0 /\ \A k \in 1..N : sum[k] = sum[k - 1] + Nth(cell, k)
  BY <1>1, <1>8
<1> HIDE DEF Is
<1>10. \A k \in 0..N : sum[k] \in Int
  <2> DEFINE G == {k \in 0..N : sum[k] \in Int}
  <2>1. 0 \in G
    BY <1>1, <1>9
  <2>2. ASSUME NEW k \in 1..N, k - 1 \in G PROVE k \in G
    BY <1>1, <1>2, <1>9, <2>2
  <2>3. 0..N \subseteq G
    <3> HIDE DEF G
    <3> QED BY <1>1, <2>1, <2>2, Induction
  <2> QED BY <2>3
<1> QED BY <1>3, <1>10 DEF N

\* Each statistic of a cell that has a sample is a number.
LEMMA StatisticIs ==
    ASSUME NEW cell, Measured(cell), NEW w \in Statistics
    PROVE  /\ Cardinality(cell.samples) # 0 => Statistic(cell, w) \in Int
           /\ Cardinality(cell.samples) = 0 => Statistic(cell, w) = NoTime
           /\ Cardinality(cell.samples) \in Nat /\ (Cardinality(cell.samples) = 0 <=> cell.samples = {})
<1>1. PICK n \in Nat : n = Cardinality(cell.samples)
  BY FS_CardinalityType DEF Measured
<1>2. n = 0 <=> cell.samples = {}
  BY <1>1, FS_EmptySet DEF Measured
<1>3. CASE n = 0
  BY <1>1, <1>2, <1>3 DEF Statistic
<1>4. CASE n # 0
  <2>1. /\ 1 \in 1..n /\ n \in 1..n /\ n \in 0..n /\ (n + 1) \div 2 \in 1..n /\ n \div 2 + 1 \in 1..n
        /\ (95 * n + 99) \div 100 \in 1..n
    BY <1>4
  <2>2. /\ Nth(cell, 1) \in Int /\ Nth(cell, n) \in Int /\ Nth(cell, (n + 1) \div 2) \in Int
        /\ Nth(cell, n \div 2 + 1) \in Int /\ Nth(cell, (95 * n + 99) \div 100) \in Int
    BY <1>1, <2>1, NthIs
  <2>3. SumTo(cell)[n] \in Int
    BY <1>1, <2>1, SumIs
  <2>4. Statistic(cell, w) = CASE w = "Min"    -> Nth(cell, 1)
                               [] w = "Max"    -> Nth(cell, n)
                               [] w = "Mean"   -> SumTo(cell)[n]
                               [] w = "Median" -> Nth(cell, (n + 1) \div 2) + Nth(cell, n \div 2 + 1)
                               [] w = "P95"    -> Nth(cell, (95 * n + 99) \div 100)
    BY <1>1, <1>4 DEF Statistic
  <2>5. Nth(cell, (n + 1) \div 2) + Nth(cell, n \div 2 + 1) \in Int
    BY <2>2
  <2>6. Statistic(cell, w) \in Int
    <3> PICK a, b, c, d, e \in Int :
          /\ a = Nth(cell, 1) /\ b = Nth(cell, n) /\ c = SumTo(cell)[n]
          /\ d = Nth(cell, (n + 1) \div 2) + Nth(cell, n \div 2 + 1) /\ e = Nth(cell, (95 * n + 99) \div 100)
      BY <2>2, <2>3, <2>5
    <3> QED BY <2>4 DEF Statistics
  <2> QED BY <1>1, <1>2, <1>4, <2>6
<1> QED BY <1>3, <1>4

\* The runs of a journal have the fields the analysis reads.
ArchiveTyped == archive \in Seq(JournalRuns)

\* Records of a mode are found where there are runs, cases and modes.
LEMMA RecordsOfIs ==
    ASSUME ArchiveTyped, NEW R \in SUBSET (DOMAIN archive)
    PROVE  /\ \A i \in R : JournalTyped(archive[i])
           /\ IsFiniteSet(R)
           /\ \A t \in CaseRecordsOf(R) : CaseAt(t).elapsed \in Int
           /\ \A t \in ModeRecordsOf(R) : CaseAt(t).elapsed \in Int /\ ModeAt(t).elapsed \in Int
           /\ \A t \in ModeRecordsOf(R) : ModeAt(t).status \in BenchmarkStatus
           /\ IsFiniteSet(CaseRecordsOf(R)) /\ IsFiniteSet(ModeRecordsOf(R))
<1>1. DOMAIN archive = 1..Len(archive) /\ Len(archive) \in Nat /\ \A i \in 1..Len(archive) : archive[i] \in JournalRuns
  BY LenProperties, ElementOfSeq DEF ArchiveTyped
<1>2. \A i \in R : JournalTyped(archive[i])
  BY <1>1, MiningAssumption
<1>3. IsFiniteSet(R)
  <2>1. 1 \in Int /\ Len(archive) \in Int
    BY <1>1
  <2>2. IsFiniteSet(1..Len(archive))
    BY <2>1, FS_Interval
  <2> QED BY <1>1, <2>2, FS_Subset
<1>4. \A t \in CaseRecordsOf(R) : t[1] \in R /\ t[2] \in DOMAIN archive[t[1]].cases
  BY DEF CaseRecordsOf
<1>5. \A t \in ModeRecordsOf(R) : t[1] \in R /\ t[2] \in DOMAIN archive[t[1]].cases /\ t[3] \in DOMAIN CaseAt(t).modes
  BY DEF ModeRecordsOf
<1>6. \A t \in CaseRecordsOf(R) : CaseAt(t).elapsed \in Int
  BY <1>2, <1>4 DEF CaseAt, JournalTyped
<1>7. \A t \in ModeRecordsOf(R) : /\ CaseAt(t).elapsed \in Int /\ ModeAt(t).elapsed \in Int
                                  /\ ModeAt(t).status \in BenchmarkStatus
  BY <1>2, <1>5 DEF CaseAt, ModeAt, JournalTyped
<1>8. \A i \in R : IsFiniteSet(DOMAIN archive[i].cases)
  BY <1>2 DEF JournalTyped
<1>9. IsFiniteSet(CaseRecordsOf(R))
  <2> DEFINE f == [i \in R |-> {i} \X (DOMAIN archive[i].cases)]
             F == {f[i] : i \in R}
  <2>1. \A i \in R : IsFiniteSet(f[i])
    <3> SUFFICES ASSUME NEW i \in R PROVE IsFiniteSet({i} \X (DOMAIN archive[i].cases))
      OBVIOUS
    <3>1. IsFiniteSet({i})
      BY FS_Singleton
    <3> QED BY <1>8, <3>1, FS_Product
  <2>2. CaseRecordsOf(R) = UNION F
    BY DEF CaseRecordsOf
  <2>3. f \in Surjection(R, F)
    BY Fun_IsSurj
  <2> HIDE DEF f
  <2>4. \A x \in F : IsFiniteSet(x)
    BY <2>1
  <2> HIDE DEF F
  <2>5. IsFiniteSet(F)
    BY <1>3, <2>3, FS_Surjection
  <2> QED BY <2>2, <2>4, <2>5, FS_UNION
<1>10. IsFiniteSet(ModeRecordsOf(R))
  <2> DEFINE P == CaseRecordsOf(R) \X {"CPU", "AUTO"}
             f == [u \in P |-> <<u[1][1], u[1][2], u[2]>>]
             F == {f[u] : u \in P}
  <2>1. IsFiniteSet(P)
    <3>1. {"CPU", "AUTO"} = {"CPU"} \cup {"AUTO"} /\ IsFiniteSet({"CPU"}) /\ IsFiniteSet({"AUTO"})
      BY FS_Singleton
    <3>2. IsFiniteSet({"CPU", "AUTO"})
      BY <3>1, FS_AddElement
    <3> QED BY <1>9, <3>2, FS_Product
  <2>2. ModeRecordsOf(R) \subseteq F
    <3> SUFFICES ASSUME NEW t \in ModeRecordsOf(R) PROVE t \in F
      OBVIOUS
    <3>1. PICK i \in R : t \in {i} \X (DOMAIN archive[i].cases) \X {"CPU", "AUTO"}
      BY DEF ModeRecordsOf
    <3> PICK c \in DOMAIN archive[i].cases, m \in {"CPU", "AUTO"} : t = <<i, c, m>>
      BY <3>1
    <3>2. <<i, c>> \in CaseRecordsOf(R)
      BY DEF CaseRecordsOf
    <3>3. <<<<i, c>>, m>> \in P
      BY <3>2
    <3>4. f[<<<<i, c>>, m>>] = t
      BY <3>3
    <3> HIDE DEF P, f
    <3> QED BY <3>3, <3>4
  <2>3. f \in Surjection(P, F)
    <3> HIDE DEF P
    <3> QED BY Fun_IsSurj
  <2> HIDE DEF f, P, F
  <2>4. IsFiniteSet(F)
    BY <2>1, <2>3, FS_Surjection
  <2> QED BY <2>2, <2>4, FS_Subset
<1> QED BY <1>2, <1>3, <1>6, <1>7, <1>9, <1>10

\* What a population admits has a duration.
LEMMA CellsMeasured ==
    ASSUME ArchiveTyped, NEW R \in SUBSET (DOMAIN archive), NEW k
    PROVE  Measured(RunCell(R)) /\ Measured(CaseCell(R)) /\ Measured(ModeCell(R, k)) /\ Measured(ModeCaseCell(R, k))
<1>1. /\ \A i \in R : JournalTyped(archive[i])
      /\ IsFiniteSet(R)
      /\ \A t \in CaseRecordsOf(R) : CaseAt(t).elapsed \in Int
      /\ \A t \in ModeRecordsOf(R) : CaseAt(t).elapsed \in Int /\ ModeAt(t).elapsed \in Int
      /\ \A t \in ModeRecordsOf(R) : ModeAt(t).status \in BenchmarkStatus
      /\ IsFiniteSet(CaseRecordsOf(R)) /\ IsFiniteSet(ModeRecordsOf(R))
  BY RecordsOfIs
<1>2. CohortOf(R, k) \in SUBSET ModeRecordsOf(R)
  BY DEF CohortOf
<1>3. IsFiniteSet(CohortOf(R, k))
  BY <1>1, <1>2, FS_Subset
<1>4. Measured(RunCell(R))
  <2> DEFINE S == {i \in R : RunExclusion(archive[i]) = "None"}
  <2>1. RunCell(R).samples = S /\ \A i \in S : RunCell(R).value[i] = WallDuration(archive[i])
    BY DEF RunCell
  <2>2. ASSUME NEW i \in S PROVE WallDuration(archive[i]) \in Int
    <3>1. i \in R /\ RunExclusion(archive[i]) = "None"
      OBVIOUS
    <3>2. WallDuration(archive[i]) # NoTime
      BY <1>1, <3>1 DEF RunExclusion, JournalTyped, BenchmarkStatus
    <3>3. archive[i].startedAt \in Int /\ archive[i].finishedAt \in Int \cup {NoTime}
      BY <1>1, <3>1 DEF JournalTyped
    <3>4. archive[i].finishedAt # NoTime /\ WallDuration(archive[i]) = archive[i].finishedAt - archive[i].startedAt
      BY <3>2 DEF WallDuration
    <3>5. archive[i].finishedAt \in Int
      BY <3>3, <3>4
    <3> QED BY <3>3, <3>4, <3>5
  <2>3. IsFiniteSet(S)
    BY <1>1, FS_Subset
  <2> QED BY <2>1, <2>2, <2>3 DEF Measured
<1>5. Measured(CaseCell(R))
  <2> DEFINE S == {t \in CaseRecordsOf(R) : CaseExclusion(CaseAt(t)) = "None"}
  <2>1. CaseCell(R).samples = S /\ \A t \in S : CaseCell(R).value[t] = CaseAt(t).elapsed
    BY DEF CaseCell
  <2>2. IsFiniteSet(S)
    BY <1>1, FS_Subset
  <2> QED BY <1>1, <2>1, <2>2 DEF Measured
<1>6. Measured(ModeCell(R, k))
  <2> DEFINE S == {t \in CohortOf(R, k) : ModeExclusion(ModeAt(t)) = "None"}
  <2>1. ModeCell(R, k).samples = S /\ \A t \in S : ModeCell(R, k).value[t] = ModeElapsed(ModeAt(t))
    BY DEF ModeCell
  <2>2. IsFiniteSet(S)
    BY <1>3, FS_Subset
  <2>3. ASSUME NEW t \in S PROVE ModeElapsed(ModeAt(t)) \in Int
    <3>1. t \in ModeRecordsOf(R) /\ ModeExclusion(ModeAt(t)) = "None"
      BY <1>2
    <3>2. ModeElapsed(ModeAt(t)) # NoTime
      BY <1>1, <3>1 DEF ModeExclusion, BenchmarkStatus
    <3> QED BY <1>1, <3>1, <3>2 DEF ModeElapsed
  <2> QED BY <2>1, <2>2, <2>3 DEF Measured
<1>7. Measured(ModeCaseCell(R, k))
  <2> DEFINE S == {t \in CohortOf(R, k) : CaseForModeExclusion(CaseAt(t), ModeAt(t)) = "None"}
  <2>1. ModeCaseCell(R, k).samples = S /\ \A t \in S : ModeCaseCell(R, k).value[t] = CaseAt(t).elapsed
    BY DEF ModeCaseCell
  <2>2. IsFiniteSet(S)
    BY <1>3, FS_Subset
  <2> QED BY <1>1, <1>2, <2>1, <2>2 DEF Measured
<1> QED BY <1>4, <1>5, <1>6, <1>7

\* A side leads to the population it was judged on.
Leads(A, o, x) ==
    Measured(ResolveSide(A, o, x)) /\ x.eligible = Cardinality(ResolveSide(A, o, x).samples)

\* The comparison of two different sides of one scope, each of which leads to its population.
Opens(A, s, o) ==
    \E x, y : /\ x # y /\ o.sides = {x, y}
              /\ x.scope = s /\ y.scope = s /\ Leads(A, o, x) /\ Leads(A, o, y)

\* A side of the runs of a build: its scope and level, and the cell of them.
Names(A, s, dim, x) ==
    /\ x.scope = s
    /\ \E cell : /\ Measured(cell) /\ x.eligible = Cardinality(cell.samples)
                 /\ \A o : o.dimension = dim => ResolveSide(A, o, x) = cell

\* A side of the whole time of a build names the runs of the build.
LEMMA RunSideIs ==
    ASSUME ArchiveTyped, NEW A \in SUBSET (DOMAIN archive), NEW s, NEW b
    PROVE  LET Q == OfBuild({i \in A : ScopeKey(i) = s}, b)
           IN  Names(A, s, "build", Side(s, "RunWallDuration", b, AnyMode, RunCell(Q)))
<1> DEFINE Q == OfBuild({i \in A : ScopeKey(i) = s}, b)
           cell == RunCell(Q)
           x == Side(s, "RunWallDuration", b, AnyMode, cell)
<1>1. x.scope = s /\ x.level = "RunWallDuration" /\ x.build = b /\ x.eligible = Cardinality(cell.samples)
  BY DEF Side
<1>2. Q \in SUBSET (DOMAIN archive)
  BY DEF OfBuild
<1> HIDE DEF x
<1>3. {i \in A : ScopeKey(i) = x.scope /\ MatchesBuild(x, i)} = Q
  BY <1>1 DEF OfBuild, MatchesBuild
<1> HIDE DEF Q
<1>4. Measured(cell)
  BY <1>2, CellsMeasured
<1>5. \A o : o.dimension = "build" => ResolveSide(A, o, x) = cell
  BY <1>1, <1>3 DEF ResolveSide
<1> HIDE DEF cell
<1> QED BY <1>1, <1>4, <1>5 DEF Names, x, Q, cell

\* A side of the times of a mode names the cohort of the build.
LEMMA ModeSideIs ==
    ASSUME ArchiveTyped, NEW A \in SUBSET (DOMAIN archive), NEW s, NEW b, NEW k, NEW dim
    PROVE  LET Q == OfBuild({i \in A : ScopeKey(i) = s}, b)
           IN  Names(A, s, dim, Side(s, "ModeElapsed", b, k, ModeCell(Q, k)))
<1> DEFINE Q == OfBuild({i \in A : ScopeKey(i) = s}, b)
           cell == ModeCell(Q, k)
           x == Side(s, "ModeElapsed", b, k, cell)
<1>1. x.scope = s /\ x.level = "ModeElapsed" /\ x.build = b /\ x.mode = k /\ x.eligible = Cardinality(cell.samples)
  BY DEF Side
<1>2. Q \in SUBSET (DOMAIN archive)
  BY DEF OfBuild
<1> HIDE DEF x
<1>3. {i \in A : ScopeKey(i) = x.scope /\ MatchesBuild(x, i)} = Q
  BY <1>1 DEF OfBuild, MatchesBuild
<1> HIDE DEF Q
<1>4. Measured(cell)
  BY <1>2, CellsMeasured
<1>5. \A o : o.dimension = dim => ResolveSide(A, o, x) = cell
  BY <1>1, <1>3 DEF ResolveSide
<1> HIDE DEF cell
<1> QED BY <1>1, <1>4, <1>5 DEF Names, x, Q, cell

\* A side of the times of a case names the cases of the build.
LEMMA CaseSideIs ==
    ASSUME ArchiveTyped, NEW A \in SUBSET (DOMAIN archive), NEW s, NEW b
    PROVE  LET Q == OfBuild({i \in A : ScopeKey(i) = s}, b)
           IN  Names(A, s, "build", Side(s, "CaseElapsed", b, AnyMode, CaseCell(Q)))
<1> DEFINE Q == OfBuild({i \in A : ScopeKey(i) = s}, b)
           cell == CaseCell(Q)
           x == Side(s, "CaseElapsed", b, AnyMode, cell)
<1>1. x.scope = s /\ x.level = "CaseElapsed" /\ x.build = b /\ x.eligible = Cardinality(cell.samples)
  BY DEF Side
<1>2. Q \in SUBSET (DOMAIN archive)
  BY DEF OfBuild
<1> HIDE DEF x
<1>3. {i \in A : ScopeKey(i) = x.scope /\ MatchesBuild(x, i)} = Q
  BY <1>1 DEF OfBuild, MatchesBuild
<1> HIDE DEF Q
<1>4. Measured(cell)
  BY <1>2, CellsMeasured
<1>5. \A o : o.dimension = "build" => ResolveSide(A, o, x) = cell
  BY <1>1, <1>3 DEF ResolveSide
<1> HIDE DEF cell
<1> QED BY <1>1, <1>4, <1>5 DEF Names, x, Q, cell

\* A side of the times of a case in a mode names the cohort's cases.
LEMMA ModeCaseSideIs ==
    ASSUME ArchiveTyped, NEW A \in SUBSET (DOMAIN archive), NEW s, NEW b, NEW k
    PROVE  LET Q == OfBuild({i \in A : ScopeKey(i) = s}, b)
           IN  Names(A, s, "mode", Side(s, "CaseElapsed", b, k, ModeCaseCell(Q, k)))
<1> DEFINE Q == OfBuild({i \in A : ScopeKey(i) = s}, b)
           cell == ModeCaseCell(Q, k)
           x == Side(s, "CaseElapsed", b, k, cell)
<1>1. x.scope = s /\ x.level = "CaseElapsed" /\ x.build = b /\ x.mode = k /\ x.eligible = Cardinality(cell.samples)
  BY DEF Side
<1>2. Q \in SUBSET (DOMAIN archive)
  BY DEF OfBuild
<1> HIDE DEF x
<1>3. {i \in A : ScopeKey(i) = x.scope /\ MatchesBuild(x, i)} = Q
  BY <1>1 DEF OfBuild, MatchesBuild
<1> HIDE DEF Q
<1>4. Measured(cell)
  BY <1>2, CellsMeasured
<1>5. \A o : o.dimension = "mode" => ResolveSide(A, o, x) = cell
  BY <1>1, <1>3 DEF ResolveSide
<1> HIDE DEF cell
<1> QED BY <1>1, <1>4, <1>5 DEF Names, x, Q, cell

\* Two different sides of the same pass make an opportunity.
LEMMA PairIs ==
    ASSUME NEW A, NEW s, NEW T, NEW dim, NEW o \in Pairs(T, dim),
           \A x \in T : Names(A, s, dim, x)
    PROVE  Opens(A, s, o)
<1>1. PICK x \in T, y \in T : x # y /\ o = [dimension |-> dim, sides |-> {x, y}]
  BY DEF Pairs
<1>2. o.dimension = dim /\ o.sides = {x, y}
  BY <1>1
<1>3. \A z \in T : z.scope = s /\ Leads(A, o, z)
  BY <1>2 DEF Names, Leads
<1> QED BY <1>1, <1>2, <1>3 DEF Opens

\* Every opportunity of a scope opens to its populations.
LEMMA OpportunitiesOpen ==
    ASSUME ArchiveTyped, NEW A \in SUBSET (DOMAIN archive), NEW s,
           NEW o \in Opportunities({i \in A : ScopeKey(i) = s}, s)
    PROVE  Opens(A, s, o)
<1> DEFINE R == {i \in A : ScopeKey(i) = s}
<1>1. CASE o \in RunsByBuild(R, s)
  <2> DEFINE T == {Side(s, "RunWallDuration", b, AnyMode, RunCell(OfBuild(R, b))) : b \in Builds(R)}
  <2>1. \A x \in T : Names(A, s, "build", x)
    BY RunSideIs
  <2>2. o \in Pairs(T, "build")
    BY <1>1 DEF RunsByBuild
  <2> HIDE DEF T
  <2> QED BY <2>1, <2>2, PairIs
<1>2. CASE o \in ModesByBuild(R, s)
  <2>1. PICK k \in CohortKeys(R) :
          o \in Pairs({Side(s, "ModeElapsed", b, k, ModeCell(OfBuild(R, b), k)) :
                         b \in {x \in Builds(R) : k \in CohortKeys(OfBuild(R, x))}}, "build")
    BY <1>2 DEF ModesByBuild
  <2> DEFINE T == {Side(s, "ModeElapsed", b, k, ModeCell(OfBuild(R, b), k)) :
                     b \in {x \in Builds(R) : k \in CohortKeys(OfBuild(R, x))}}
  <2>2. \A x \in T : Names(A, s, "build", x)
    BY ModeSideIs
  <2>3. o \in Pairs(T, "build")
    BY <2>1
  <2> HIDE DEF T
  <2> QED BY <2>2, <2>3, PairIs
<1>3. CASE o \in ModesByMode(R, s)
  <2>1. PICK b \in Builds(R) :
          o \in Pairs({Side(s, "ModeElapsed", b, k, ModeCell(OfBuild(R, b), k)) : k \in CohortKeys(OfBuild(R, b))}, "mode")
    BY <1>3 DEF ModesByMode
  <2> DEFINE T == {Side(s, "ModeElapsed", b, k, ModeCell(OfBuild(R, b), k)) : k \in CohortKeys(OfBuild(R, b))}
  <2>2. \A x \in T : Names(A, s, "mode", x)
    BY ModeSideIs
  <2>3. o \in Pairs(T, "mode")
    BY <2>1
  <2> HIDE DEF T
  <2> QED BY <2>2, <2>3, PairIs
<1>4. CASE o \in CasesByBuild(R, s)
  <2> DEFINE T == {Side(s, "CaseElapsed", b, AnyMode, CaseCell(OfBuild(R, b))) : b \in Builds(R)}
  <2>1. \A x \in T : Names(A, s, "build", x)
    BY CaseSideIs
  <2>2. o \in Pairs(T, "build")
    BY <1>4 DEF CasesByBuild
  <2> HIDE DEF T
  <2> QED BY <2>1, <2>2, PairIs
<1>5. CASE o \in CasesByMode(R, s)
  <2>1. PICK b \in Builds(R) :
          o \in Pairs({Side(s, "CaseElapsed", b, k, ModeCaseCell(OfBuild(R, b), k)) : k \in CohortKeys(OfBuild(R, b))}, "mode")
    BY <1>5 DEF CasesByMode
  <2> DEFINE T == {Side(s, "CaseElapsed", b, k, ModeCaseCell(OfBuild(R, b), k)) : k \in CohortKeys(OfBuild(R, b))}
  <2>2. \A x \in T : Names(A, s, "mode", x)
    BY ModeCaseSideIs
  <2>3. o \in Pairs(T, "mode")
    BY <2>1
  <2> HIDE DEF T
  <2> QED BY <2>2, <2>3, PairIs
<1> QED BY <1>1, <1>2, <1>3, <1>4, <1>5 DEF Opportunities

\* The numbers of a comparison: a side leads to the population it was judged on, all of whose
\* samples have a duration, and every statistic has a delta.
Compared(A, o) ==
  \A a \in o.sides : \A b \in o.sides \ {a} :
    /\ a.eligible = Cardinality(ResolveSide(A, o, a).samples) /\ a.scope = b.scope
    /\ \A t \in ResolveSide(A, o, a).samples : ResolveSide(A, o, a).value[t] # NoTime
    /\ \A w \in Statistics : LET c == CompareStatistic(ResolveSide(A, o, a), ResolveSide(A, o, b), w) IN
         c.delta /\ (c.ratio <=> c.unavailable = {})

\* Two populations that are not empty compare in every statistic, in ratio unless the first is zero.
LEMMA CellsCompare ==
    ASSUME NEW left, Measured(left), left.samples # {},
           NEW right, Measured(right), right.samples # {}, NEW w \in Statistics
    PROVE  LET c == CompareStatistic(left, right, w) IN c.delta /\ (c.ratio <=> c.unavailable = {})
<1>1. PICK l \in Int : l = Statistic(left, w)
  BY StatisticIs
<1>2. PICK r \in Int : r = Statistic(right, w)
  BY StatisticIs
<1>3. l # NoTime /\ r # NoTime
  BY MiningAssumption
<1> DEFINE c == CompareStatistic(left, right, w)
<1>4. /\ c.delta = ~(NoTime \in {l, r}) /\ c.ratio = (~(NoTime \in {l, r}) /\ l # 0)
      /\ c.unavailable = {x \in {"NoEligibleSamples"} : {} \in {left.samples, right.samples}}
                      \cup {x \in {"LeftStatisticAbsent"} : l = NoTime}
                      \cup {x \in {"RightStatisticAbsent"} : r = NoTime}
                      \cup {x \in {"ZeroLeftReference"} : ~(NoTime \in {l, r}) /\ l = 0}
  BY <1>1, <1>2 DEF CompareStatistic
<1> HIDE DEF c
<1>5. c.delta /\ (c.ratio <=> l # 0)
  BY <1>3, <1>4
<1>6. c.unavailable = {x \in {"ZeroLeftReference"} : l = 0}
  BY <1>3, <1>4
<1>7. l # 0 => c.unavailable = {}
  BY <1>6
<1>8. l = 0 => "ZeroLeftReference" \in c.unavailable
  BY <1>6
<1>9. c.delta /\ (c.ratio <=> c.unavailable = {})
  BY <1>5, <1>7, <1>8
<1> QED BY <1>9 DEF c

\* An opportunity that opens to its populations and is judged eligible has numbers.
LEMMA EligibleCompares ==
    ASSUME NEW A, NEW s, NEW o, Opens(A, s, o), Verdict(o) = "Eligible"
    PROVE  Compared(A, o)
<1>1. PICK x, y : /\ x # y /\ o.sides = {x, y} /\ x.scope = s /\ y.scope = s
                  /\ Leads(A, o, x) /\ Leads(A, o, y)
  BY DEF Opens
<1>2. x.eligible # 0 /\ y.eligible # 0
  <2> DEFINE a == CHOOSE z \in o.sides : TRUE
             b == CHOOSE z \in o.sides : z # a
  <2>1. a \in o.sides /\ b \in o.sides /\ b # a
    BY <1>1
  <2>2. EvaluateComparison(a, b, o.dimension) = "Eligible"
    BY DEF Verdict
  <2> HIDE DEF a, b
  <2>3. 0 \notin {a.eligible, b.eligible}
    BY <2>2 DEF EvaluateComparison
  <2> QED BY <1>1, <2>1, <2>3
<1>3. \A z \in {x, y} : /\ Measured(ResolveSide(A, o, z)) /\ z.eligible = Cardinality(ResolveSide(A, o, z).samples)
                        /\ z.eligible # 0 /\ z.scope = s
  BY <1>1, <1>2 DEF Leads
<1>4. \A z \in {x, y} : ResolveSide(A, o, z).samples # {}
  BY <1>3, FS_EmptySet
<1>5. \A z \in {x, y} : \A t \in ResolveSide(A, o, z).samples : ResolveSide(A, o, z).value[t] # NoTime
  BY <1>3, MiningAssumption DEF Measured
<1>6. \A z, z1 \in {x, y}, w \in Statistics :
        LET c == CompareStatistic(ResolveSide(A, o, z), ResolveSide(A, o, z1), w)
        IN  c.delta /\ (c.ratio <=> c.unavailable = {})
  BY <1>3, <1>4, CellsCompare
<1> QED BY <1>1, <1>3, <1>5, <1>6 DEF Compared

\* The candidates of a report have numbers.
LEMMA CandidatesCompared ==
    CandidatesHaveNumbers <=> \A rep \in report : \A o \in rep.candidates : Compared(rep.accepted, o)
BY DEF CandidatesHaveNumbers, Compared

\* What has been journalled stays: a side keeps its population.
LEMMA CellsStay ==
    ASSUME archive' = archive
    PROVE  \A A, o, x : ResolveSide(A, o, x)' = ResolveSide(A, o, x)
<1>1. \A i : ScopeKey(i)' = ScopeKey(i) /\ BuildKey(i)' = BuildKey(i)
  BY DEF ScopeKey, BuildKey
<1>2. \A x, i : MatchesBuild(x, i)' = MatchesBuild(x, i)
  BY <1>1 DEF MatchesBuild
<1>3. \A t : CaseAt(t)' = CaseAt(t) /\ ModeAt(t)' = ModeAt(t)
  BY DEF CaseAt, ModeAt
<1>4. \A i, c, m : ModeKey(i, c, m)' = ModeKey(i, c, m)
  BY DEF ModeKey
<1>5. \A R : CaseRecordsOf(R)' = CaseRecordsOf(R) /\ ModeRecordsOf(R)' = ModeRecordsOf(R)
  BY <1>3 DEF CaseRecordsOf, ModeRecordsOf
<1>6. \A R, k : CohortOf(R, k)' = CohortOf(R, k)
  BY <1>4, <1>5 DEF CohortOf
<1>7. \A R : RunCell(R)' = RunCell(R)
  BY DEF RunCell
<1>8. \A R : CaseCell(R)' = CaseCell(R)
  BY <1>3, <1>5 DEF CaseCell
<1>9. \A R, k : ModeCell(R, k)' = ModeCell(R, k) /\ ModeCaseCell(R, k)' = ModeCaseCell(R, k)
  BY <1>3, <1>6 DEF ModeCell, ModeCaseCell
<1> SUFFICES ASSUME NEW A, NEW o, NEW x PROVE ResolveSide(A, o, x)' = ResolveSide(A, o, x)
  OBVIOUS
<1>10. {i \in A : ScopeKey(i)' = x.scope /\ MatchesBuild(x, i)'} = {i \in A : ScopeKey(i) = x.scope /\ MatchesBuild(x, i)}
  BY <1>1, <1>2
<1> QED BY <1>7, <1>8, <1>9, <1>10 DEF ResolveSide

\* What the analysis keeps: runs that a journal may hold, and a sound report.
MiningInv == ArchiveTyped /\ ReportSound

\* Nothing is found at first.
LEMMA MiningBegins == MiningInit => MiningInv
BY DEF MiningInit, MiningInv, ArchiveTyped, ReportSound, EveryRunAccounted, CandidatesHaveNumbers

\* A run is accepted or excluded for a reason.
LEMMA RunsAccounted ==
    ASSUME NEW e, JournalTyped(e), NEW a, a <=> Analysable(e)
    PROVE  IF a THEN e.end = "finished" /\ e.print \notin {"", "absent"} ELSE Exclusions(e) # {}
<1>1. CASE Analysable(e)
  <2>1. RunClass(e) = "Complete" /\ DatasetIdentity(e) = "Valid"
    BY <1>1 DEF Analysable
  <2>2. e.end \notin {"corrupt", "cancelled", "open"}
    BY <2>1 DEF RunClass
  <2>3. e.print \notin {"", "absent"}
    BY <2>1 DEF DatasetIdentity
  <2> QED BY <1>1, <2>2, <2>3 DEF JournalTyped
<1>2. CASE ~Analysable(e)
  <2>1. CASE DatasetIdentity(e) # "Valid"
    <3>1. "NoDatasetFingerprint" \in Exclusions(e)
      BY <2>1 DEF Exclusions
    <3> QED BY <1>2, <3>1
  <2>2. CASE RunClass(e) # "Complete"
    <3>1. RunClass(e) \in {"Corrupt", "Cancelled", "Incomplete"}
      BY <2>2 DEF RunClass
    <3>2. (CASE RunClass(e) = "Corrupt"    -> {"FatalCorruption"}
             [] RunClass(e) = "Cancelled"  -> {"CancelledRun"}
             [] RunClass(e) = "Incomplete" -> {"IncompleteRun"}
             [] OTHER                      -> {}) # {}
      BY <3>1
    <3>3. Exclusions(e) # {}
      BY <3>2 DEF Exclusions
    <3> QED BY <1>2, <3>3
  <2> QED BY <1>2, <2>1, <2>2 DEF Analysable
<1> QED BY <1>1, <1>2

\* Each step keeps it: no run is journalled once the report is made.
LEMMA MiningStep == MiningInv /\ [MiningNext]_miningVars => MiningInv'
<1> SUFFICES ASSUME MiningInv, [MiningNext]_miningVars PROVE MiningInv'
  OBVIOUS
<1>1. CASE Mine
  <2>1. PICK A : /\ A = {i \in DOMAIN archive : Analysable(archive[i])}
                 /\ \E O \in {UNION {Opportunities({i \in A : ScopeKey(i) = s}, s) : s \in {ScopeKey(i) : i \in A}}} :
                      report' = {[found |-> DOMAIN archive, accepted |-> A,
                                  candidates |-> {o \in O : Verdict(o) = "Eligible"},
                                  rejected |-> {o \in O : Verdict(o) # "Eligible"}]}
    BY <1>1 DEF Mine
  <2>2. PICK O : /\ O = UNION {Opportunities({i \in A : ScopeKey(i) = s}, s) : s \in {ScopeKey(i) : i \in A}}
                 /\ report' = {[found |-> DOMAIN archive, accepted |-> A,
                                candidates |-> {o \in O : Verdict(o) = "Eligible"},
                                rejected |-> {o \in O : Verdict(o) # "Eligible"}]}
    BY <2>1
  <2>3. archive' = archive
    BY <1>1 DEF Mine
  <2>4. \A o \in O : Verdict(o) = "Eligible" => Compared(A, o)
    <3> SUFFICES ASSUME NEW o \in O, Verdict(o) = "Eligible" PROVE Compared(A, o)
      OBVIOUS
    <3>1. PICK s : o \in Opportunities({i \in A : ScopeKey(i) = s}, s)
      BY <2>2
    <3>2. A \in SUBSET (DOMAIN archive)
      BY <2>1
    <3>3. Opens(A, s, o)
      BY <3>1, <3>2, OpportunitiesOpen DEF MiningInv
    <3> QED BY <3>3, EligibleCompares
  <2>5. \A rep \in report' : /\ rep.found = DOMAIN archive /\ rep.accepted = A
                             /\ \A o \in rep.candidates : Compared(A, o)
    <3> DEFINE rep == [found |-> DOMAIN archive, accepted |-> A,
                       candidates |-> {o \in O : Verdict(o) = "Eligible"},
                       rejected |-> {o \in O : Verdict(o) # "Eligible"}]
    <3>1. report' = {rep}
      BY <2>2
    <3>2. rep.found = DOMAIN archive /\ rep.accepted = A /\ rep.candidates = {o \in O : Verdict(o) = "Eligible"}
      OBVIOUS
    <3> HIDE DEF rep
    <3>3. \A o \in rep.candidates : Compared(A, o)
      BY <2>4, <3>2
    <3> QED BY <3>1, <3>2, <3>3
  <2>6. \A A1, o : Compared(A1, o)' = Compared(A1, o)
    BY <2>3, CellsStay DEF Compared
  <2>7. CandidatesHaveNumbers'
    <3>1. \A rep \in report' : \A o \in rep.candidates : Compared(rep.accepted, o)'
      BY <2>5, <2>6
    <3> QED BY <3>1 DEF CandidatesHaveNumbers, Compared
  <2>8. EveryRunAccounted'
    <3>1. \A rep \in report', i \in DOMAIN archive : (i \in rep.accepted) <=> Analysable(archive[i])
      BY <2>1, <2>5
    <3>2. \A i \in DOMAIN archive : JournalTyped(archive[i])
      BY RecordsOfIs DEF MiningInv
    <3> QED BY <2>3, <2>5, <3>1, <3>2, RunsAccounted DEF EveryRunAccounted
  <2> QED BY <2>3, <2>7, <2>8 DEF MiningInv, ReportSound, ArchiveTyped
<1>2. ASSUME NEW e \in JournalRuns, LeaveJournal(e) PROVE MiningInv'
  <2>1. report' = {} /\ archive' = Append(archive, e)
    BY <1>2 DEF LeaveJournal
  <2>2. archive' \in Seq(JournalRuns)
    BY <2>1, AppendProperties DEF MiningInv, ArchiveTyped
  <2> QED BY <2>1, <2>2 DEF MiningInv, ArchiveTyped, ReportSound, EveryRunAccounted, CandidatesHaveNumbers
<1>3. CASE UNCHANGED miningVars
  <2>1. archive' = archive /\ report' = report
    BY <1>3 DEF miningVars
  <2>2. \A A1, o : Compared(A1, o)' = Compared(A1, o)
    BY <2>1, CellsStay DEF Compared
  <2>3. \A rep \in report' : \A o \in rep.candidates : Compared(rep.accepted, o)'
    BY <2>1, <2>2, CandidatesCompared DEF MiningInv, ReportSound
  <2>4. CandidatesHaveNumbers'
    BY <2>3 DEF CandidatesHaveNumbers, Compared
  <2> QED BY <2>1, <2>4 DEF MiningInv, ArchiveTyped, ReportSound, EveryRunAccounted
<1> QED BY <1>1, <1>2, <1>3 DEF MiningNext

\* For all journals the report accounts for every run found, and each of its candidates leads its
\* metrics back to the populations it was judged on, with a delta of every statistic.
THEOREM ReportIsSound == MiningSpec => []ReportSound
<1>1. MiningInv => ReportSound
  BY DEF MiningInv
<1> QED BY <1>1, MiningBegins, MiningStep, PTL DEF MiningSpec

-----------------------------------------------------------------------------
(* MCRecords: the parts side by side.                                          *)

\* What each of the parts keeps, all at once: a step is one part's, and leaves the others alone.
RecordsInv == JournalInv /\ MiningInv /\ StoreInv /\ RecordInv /\ TelemetryTyped /\ ProfileInv /\ Counted

\* Whichever part takes a step, all of them keep what they keep.
LEMMA RecordsStep == RecordsInv /\ [RecordsNext]_recordsVars => RecordsInv'
<1> SUFFICES ASSUME RecordsInv, [RecordsNext]_recordsVars PROVE RecordsInv'
  OBVIOUS
<1>1. /\ [JournalNext]_journalVars /\ [MiningNext]_miningVars /\ [StoreNext]_storeVars
      /\ [TelemetryNext]_telemetryVars /\ [ProfileNext]_profileVars
  BY DEF RecordsNext, recordsVars
<1>2. JournalInv' /\ MiningInv' /\ StoreInv'
  BY <1>1, JournalStays, MiningStep, StoreStep DEF RecordsInv
<1>3. RecordInv' /\ TelemetryTyped'
  BY <1>1, RecordStep, TelemetryTypedStep DEF RecordsInv
<1>4. ProfileInv' /\ Counted'
  BY <1>1, ProfileStep, CountedStep DEF RecordsInv
<1> QED BY <1>2, <1>3, <1>4 DEF RecordsInv

\* For all values of the constants the journal, the directories of the indices, the record of a
\* scan and the profile have their types.
THEOREM RecordsAreTyped == RecordsSpec => []RecordsTypeOK
<1>1. RecordsInit => RecordsInv
  BY JournalBegins, MiningBegins, StoreBegins, RecordInit, TelemetryTypedAtFirst, ProfileInitially, CountedAtFirst
     DEF RecordsInit, RecordsInv
<1>2. RecordsInv => RecordsTypeOK
  BY ProfileTypes DEF RecordsInv, RecordsTypeOK, JournalInv, JournalTypes, StoreInv, StoreTypes, TelemetryTyped
<1> QED BY <1>1, <1>2, RecordsStep, PTL DEF RecordsSpec
=============================================================================
