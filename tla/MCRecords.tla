-------------------------------- MODULE MCRecords --------------------------------
(***************************************************************************)
(* Instances for TLC of what the program keeps: the benchmark's journal      *)
(* (BenchmarkJournal) and the reports mined from it (BenchmarkMining), the   *)
(* directories of the indices (IndexStore), what a test scan writes to them  *)
(* (TestAdoption), the record of a scan (Telemetry) and the profile of the   *)
(* machine (Profile).                                                       *)
(*                                                                         *)
(* They share no variable, so that one of them at a time is run: part names  *)
(* it, and what belongs to the others keeps its first value.                *)
(***************************************************************************)
EXTENDS BenchmarkJournal, BenchmarkMining, IndexStore, TestAdoption, Telemetry, Profile

\* The runs of the journal, the engines that share a profile and the roots of
\* the indexes are alike, and no property of theirs is temporal beyond a step.
Interchangeable == Permutations(Runs) \cup Permutations(Engines) \cup Permutations(Roots)

VARIABLE part
recordsVars == <<journalVars, miningVars, storeVars, adoptVars, telemetryVars, profileVars, part>>

\* The values of the constants that a .cfg cannot write.
TwoModes == <<"CPU", "CUDA">>
InFolder == [r \in {"A", "B"} |-> IF r = "A" THEN {"a1", "a2", "a3"} ELSE {"b"}]

\* Runs of the benchmark: of one case or none, whole or not, with one way each
\* in which a mode can end.
JournaledMode(verdict, begun, took, device) ==
    [status |-> verdict, started |-> begun, elapsed |-> took, effective |-> device]
Cpu == JournaledMode("Success", TRUE, 0, "CPU")
JournaledCase(verdict, took, auto) ==
    [c \in {"k"} |-> [status |-> verdict, elapsed |-> took,
                      modes |-> [m \in {"CPU", "AUTO"} |-> IF m = "CPU" THEN Cpu ELSE auto]]]
CaseLess == [c \in {} |-> 0]
CaseSets == {CaseLess,
             JournaledCase("Success", 2, JournaledMode("Success", TRUE, 2, "CUDA")),
             JournaledCase("Success", 1, JournaledMode("Success", FALSE, 1, "CUDA")),
             JournaledCase("Failed", 1, JournaledMode("Skipped", FALSE, 0, "CPU"))}
JournaledRun(ending, digest, commitId, verdict, doneAt, made, bare) ==
    [end |-> ending, print |-> digest, scope |-> "all", build |-> "v1", commit |-> commitId,
     status |-> verdict, startedAt |-> 1, finishedAt |-> doneAt, cases |-> made,
     commitless |-> bare]
Journaled ==
    {JournaledRun("finished", "d", c, s, f, cs, FALSE) :
        c \in {"", "unknown", "c1", "c2"}, s \in {"Success", "Failed"}, f \in {0, 3}, cs \in CaseSets}
    \cup {JournaledRun(e, p, "c1", "", 9, CaseLess, bare) :
        e \in {"corrupt", "cancelled", "open", "finished"}, p \in {"absent", "", "d"},
        bare \in BOOLEAN}

-----------------------------------------------------------------------------

\* A part that is not run has one first state.
RecordsInit ==
    /\ part \in {"journal", "mining", "index store", "adoption", "telemetry", "profile"}
    /\ JournalInit /\ MiningInit /\ StoreInit /\ AdoptInit
    /\ TelemetryInit /\ (part # "telemetry" => detail)
    /\ ProfileInit /\ (part # "profile" => gpu = NoGpu /\ reuse)

RecordsNext ==
    /\ UNCHANGED part
    /\ IF part = "journal"     THEN JournalNext   ELSE UNCHANGED journalVars
    /\ IF part = "mining"      THEN MiningNext    ELSE UNCHANGED miningVars
    /\ IF part = "index store" THEN StoreNext     ELSE UNCHANGED storeVars
    /\ IF part = "adoption"    THEN AdoptNext     ELSE UNCHANGED adoptVars
    /\ IF part = "telemetry"   THEN TelemetryNext ELSE UNCHANGED telemetryVars
    /\ IF part = "profile"     THEN ProfileNext   ELSE UNCHANGED profileVars

RecordsSpec == RecordsInit /\ [][RecordsNext]_recordsVars

-----------------------------------------------------------------------------

\* The types of all of them.
RecordsTypeOK == JournalTypeOK /\ StoreTypeOK /\ TelemetryTypeOK /\ ProfileTypeOK
================================================================================
