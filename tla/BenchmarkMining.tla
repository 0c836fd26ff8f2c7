-------------------------- MODULE BenchmarkMining --------------------------
(* The analysis of recorded benchmark journals: ingestion of the runs found   *)
(* below the application data folder (benchmark_data_mining.cpp), the         *)
(* hierarchy dataset -> scope -> build -> mode with the populations of its    *)
(* cells (benchmark_data_grouping.cpp, benchmark_data_aggregation.cpp), the   *)
(* search for comparable pairs (benchmark_data_comparison.cpp) and the        *)
(* numbers of a comparison (benchmark_data_comparison_metrics.cpp).           *)
(*                                                                            *)
(* A run is a position of the archive, the journals in the order in which     *)
(* they are discovered: the code identifies it by journal and run id.  A      *)
(* population is the set of logical records it admits, each tagged by its     *)
(* run, case and mode, so that no record is weighed twice.  A duration is a   *)
(* small number, NoTime where the journal holds none.                         *)
EXTENDS Integers, Sequences, FiniteSets

CONSTANTS JournalRuns,   \* what one run may leave in a journal
          MaxRuns,       \* a bound: runs in the archive
          NoTime         \* the absent duration

BenchmarkStatus == {"Success", "Failed", "Cancelled", "Skipped"}

\* A journal gives every case and mode a status and a number, and a run its
\* stamps or none; the status of a run may be absent.
JournalTyped(e) ==
  /\ e.status \in BenchmarkStatus \cup {""}
  /\ e.end \in {"corrupt", "cancelled", "open", "finished"}
  /\ e.startedAt \in Int /\ e.finishedAt \in Int \cup {NoTime}
  /\ IsFiniteSet(DOMAIN e.cases)
  /\ \A c \in DOMAIN e.cases :
       /\ e.cases[c].elapsed \in Int /\ e.cases[c].status \in BenchmarkStatus
       /\ \A m \in DOMAIN e.cases[c].modes :
            e.cases[c].modes[m].elapsed \in Int /\ e.cases[c].modes[m].status \in BenchmarkStatus

ASSUME MiningAssumption ==
  /\ MaxRuns \in Nat /\ NoTime \notin Int
  /\ \A e \in JournalRuns : JournalTyped(e)

VARIABLES archive,       \* the replayed runs of all journals
          report         \* the analysis: {} or a set holding one report

miningVars == <<archive, report>>

Statistics == {"Min", "Max", "Mean", "Median", "P95"}

-----------------------------------------------------------------------------
(* Ingestion: benchmark_data_mining.cpp                                       *)

CommitState(e) == CASE e.commit = ""        -> "Legacy"
                    [] e.commit = "unknown" -> "Unknown"
                    [] OTHER                -> "Known"

DatasetIdentity(e) == CASE e.print = "absent" -> "Missing"
                        [] e.print = ""       -> "Empty"
                        [] OTHER              -> "Valid"

\* fatal damage, a cancelled run and a run without an end, in this order
RunClass(e) == CASE e.end = "corrupt"   -> "Corrupt"
                 [] e.end = "cancelled" -> "Cancelled"
                 [] e.end = "open"      -> "Incomplete"
                 [] OTHER               -> "Complete"

Exclusions(e) ==
  (CASE RunClass(e) = "Corrupt"    -> {"FatalCorruption"}
     [] RunClass(e) = "Cancelled"  -> {"CancelledRun"}
     [] RunClass(e) = "Incomplete" -> {"IncompleteRun"}
     [] OTHER                      -> {})
  \cup {r \in {"NoDatasetFingerprint"} : DatasetIdentity(e) # "Valid"}
  \cup {r \in {"CommitlessCase"} : e.commitless}

Analysable(e) == RunClass(e) = "Complete" /\ DatasetIdentity(e) = "Valid"

\* A mode that never started carries no measurement; the wall time of a run is
\* the difference of its two stamps, and none where that is negative.
ModeElapsed(x) == IF x.started THEN x.elapsed ELSE NoTime
WallDuration(e) == IF e.finishedAt = NoTime \/ e.finishedAt < e.startedAt
                     THEN NoTime ELSE e.finishedAt - e.startedAt

-----------------------------------------------------------------------------
(* The hierarchy over the accepted runs A, a set of positions                 *)

ScopeKey(i) == <<archive[i].print, archive[i].scope>>

\* The state of the commit is part of the key, its value only when known.
BuildKey(i) == LET e == archive[i] IN
  <<e.build, CommitState(e), IF CommitState(e) = "Known" THEN e.commit ELSE "">>

ModeKey(i, c, m) == <<m, archive[i].cases[c].modes[m].effective>>

\* what keeps a record of a mode, a case or a run out of its population
ModeExclusion(x) == IF x.status # "Success" THEN x.status
                    ELSE IF ModeElapsed(x) = NoTime THEN "MissingElapsed" ELSE "None"
CaseExclusion(c) == IF c.status # "Success" THEN c.status ELSE "None"
CaseForModeExclusion(c, x) == IF c.status # "Success" THEN c.status
                              ELSE IF x.status # "Success" THEN x.status ELSE "None"
RunExclusion(e) == IF e.status = "" THEN "Invalid"
                   ELSE IF e.status # "Success" THEN e.status
                   ELSE IF WallDuration(e) = NoTime THEN "MissingElapsed" ELSE "None"

CaseAt(t) == archive[t[1]].cases[t[2]]
ModeAt(t) == CaseAt(t).modes[t[3]]

\* the records of the runs R, and those the mode cohort k observed
CaseRecordsOf(R) == UNION {{i} \X (DOMAIN archive[i].cases) : i \in R}
ModeRecordsOf(R) == {t \in UNION {{i} \X (DOMAIN archive[i].cases) \X {"CPU", "AUTO"} : i \in R} :
                 t[3] \in DOMAIN CaseAt(t).modes}
CohortOf(R, k) == {t \in ModeRecordsOf(R) : ModeKey(t[1], t[2], t[3]) = k}
CohortKeys(R) == {ModeKey(t[1], t[2], t[3]) : t \in ModeRecordsOf(R)}

\* A cell: what a level observed, and its samples with their durations.
RunCell(R) == [observed |-> R, samples |-> {i \in R : RunExclusion(archive[i]) = "None"},
               value |-> [i \in R |-> WallDuration(archive[i])]]
CaseCell(R) == [observed |-> CaseRecordsOf(R),
                samples |-> {t \in CaseRecordsOf(R) : CaseExclusion(CaseAt(t)) = "None"},
                value |-> [t \in CaseRecordsOf(R) |-> CaseAt(t).elapsed]]
ModeCell(R, k) == [observed |-> CohortOf(R, k),
                   samples |-> {t \in CohortOf(R, k) : ModeExclusion(ModeAt(t)) = "None"},
                   value |-> [t \in CohortOf(R, k) |-> ModeElapsed(ModeAt(t))]]
ModeCaseCell(R, k) ==
  [observed |-> CohortOf(R, k),
   samples |-> {t \in CohortOf(R, k) : CaseForModeExclusion(CaseAt(t), ModeAt(t)) = "None"},
   value |-> [t \in CohortOf(R, k) |-> CaseAt(t).elapsed]]

NoCell == [observed |-> {}, samples |-> {}, value |-> <<>>]

\* The k-th of a cell's durations in ascending order: fewer than k are shorter.
Nth(cell, k) ==
  CHOOSE v \in {cell.value[t] : t \in cell.samples} :
    /\ Cardinality({t \in cell.samples : cell.value[t] < v}) < k
    /\ k <= Cardinality({t \in cell.samples : cell.value[t] <= v})

\* The sum of the first k of them.
SumTo(cell) ==
  LET sum[k \in 0 .. Cardinality(cell.samples)] ==
        IF k = 0 THEN 0 ELSE sum[k - 1] + Nth(cell, k)
  IN sum

\* The five statistics of a cell; the mean as the sum and the median as twice
\* its value, so that no number is rounded.
Statistic(cell, which) ==
  LET n == Cardinality(cell.samples)
  IN IF n = 0 THEN NoTime
     ELSE CASE which = "Min"    -> Nth(cell, 1)
            [] which = "Max"    -> Nth(cell, n)
            [] which = "Mean"   -> SumTo(cell)[n]
            [] which = "Median" -> Nth(cell, (n + 1) \div 2) + Nth(cell, n \div 2 + 1)
            [] which = "P95"    -> Nth(cell, (95 * n + 99) \div 100)

-----------------------------------------------------------------------------
(* Candidates: benchmark_data_comparison.cpp                                  *)

\* A side names its cohort by key only; "any" stands for the mode a build-level
\* metric does not set.
Side(s, level, b, k, cell) ==
  [scope |-> s, level |-> level, build |-> b, mode |-> k, eligible |-> Cardinality(cell.samples)]

AnyMode == <<"any", "any">>

EvaluateComparison(a, b, dimension) ==
  CASE a.scope[1] # b.scope[1] -> "MismatchedDataset"
    [] a.scope # b.scope       -> "MismatchedScope"
    [] a.level # b.level       -> "MismatchedMetric"
    [] dimension = "build" /\ a.mode # b.mode   -> "MismatchedMode"
    [] dimension = "mode" /\ a.build # b.build  -> "MismatchedMode"
    [] a.build = b.build /\ a.mode = b.mode     -> "SameProvenance"
    [] dimension = "build" /\ {a.build[2], b.build[2]} # {"Known"} -> "MissingProvenance"
    [] 0 \in {a.eligible, b.eligible}           -> "NoComparableSamples"
    [] OTHER                                    -> "Eligible"

\* the builds of the runs R of one scope, and the runs of a build
Builds(R) == {BuildKey(i) : i \in R}
OfBuild(R, b) == {i \in R : BuildKey(i) = b}
Pairs(T, dim) == {[dimension |-> dim, sides |-> {p[1], p[2]}] :
                    p \in {q \in T \X T : q[1] # q[2]}}

\* the five passes over the builds of a scope, each pair of cohorts once
RunsByBuild(R, s) ==
  Pairs({Side(s, "RunWallDuration", b, AnyMode, RunCell(OfBuild(R, b))) : b \in Builds(R)}, "build")

ModesByBuild(R, s) ==
  UNION {Pairs({Side(s, "ModeElapsed", b, k, ModeCell(OfBuild(R, b), k)) :
                  b \in {x \in Builds(R) : k \in CohortKeys(OfBuild(R, x))}}, "build") :
           k \in CohortKeys(R)}

ModesByMode(R, s) ==
  UNION {Pairs({Side(s, "ModeElapsed", b, k, ModeCell(OfBuild(R, b), k)) :
                  k \in CohortKeys(OfBuild(R, b))}, "mode") : b \in Builds(R)}

CasesByBuild(R, s) ==
  Pairs({Side(s, "CaseElapsed", b, AnyMode, CaseCell(OfBuild(R, b))) : b \in Builds(R)}, "build")

CasesByMode(R, s) ==
  UNION {Pairs({Side(s, "CaseElapsed", b, k, ModeCaseCell(OfBuild(R, b), k)) :
                  k \in CohortKeys(OfBuild(R, b))}, "mode") : b \in Builds(R)}

Opportunities(R, s) == RunsByBuild(R, s) \cup ModesByBuild(R, s) \cup ModesByMode(R, s)
                       \cup CasesByBuild(R, s) \cup CasesByMode(R, s)

Verdict(o) == LET a == CHOOSE x \in o.sides : TRUE
                  b == CHOOSE x \in o.sides : x # a
              IN EvaluateComparison(a, b, o.dimension)

-----------------------------------------------------------------------------
(* Numbers: benchmark_data_comparison_metrics.cpp                             *)

\* A mutant: the state of the commit is not compared.
MatchesBuildByCommit(side, i) ==
  BuildKey(i)[1] = side.build[1] /\ BuildKey(i)[3] = side.build[3]

MatchesBuild(side, i) == BuildKey(i) = side.build

\* The cell a side names.  A mode's cell serves every mode comparison and every
\* comparison of mode times, a build's cell the others.
ResolveSide(A, o, side) ==
  LET R == {i \in A : ScopeKey(i) = side.scope /\ MatchesBuild(side, i)}
      ofMode == o.dimension = "mode" \/ side.level = "ModeElapsed"
  IN CASE ofMode /\ side.level = "ModeElapsed" -> ModeCell(R, side.mode)
       [] ofMode /\ side.level = "CaseElapsed" -> ModeCaseCell(R, side.mode)
       [] ~ofMode /\ side.level = "CaseElapsed" -> CaseCell(R)
       [] ~ofMode /\ side.level = "RunWallDuration" -> RunCell(R)
       [] OTHER -> NoCell

CompareStatistic(left, right, which) ==
  LET l == Statistic(left, which)
      r == Statistic(right, which)
      absent == NoTime \in {l, r}
  IN [delta |-> ~absent, ratio |-> ~absent /\ l # 0,
      unavailable |-> {x \in {"NoEligibleSamples"} : {} \in {left.samples, right.samples}}
                      \cup {x \in {"LeftStatisticAbsent"} : l = NoTime}
                      \cup {x \in {"RightStatisticAbsent"} : r = NoTime}
                      \cup {x \in {"ZeroLeftReference"} : ~absent /\ l = 0}]

-----------------------------------------------------------------------------

MiningInit == archive = <<>> /\ report = {}

\* Environment: one more run ends up in a journal below the data folder.
LeaveJournal(e) == /\ Len(archive) < MaxRuns /\ report = {}
             /\ archive' = Append(archive, e)
             /\ UNCHANGED report

\* ingestBenchmarks, aggregateBenchmarks and findComparisonCandidates
Mine == /\ report = {}
        /\ \E A \in {{i \in DOMAIN archive : Analysable(archive[i])}} :
           \E O \in {UNION {Opportunities({i \in A : ScopeKey(i) = s}, s) :
                              s \in {ScopeKey(i) : i \in A}}} :
             report' = {[found |-> DOMAIN archive, accepted |-> A,
                         candidates |-> {o \in O : Verdict(o) = "Eligible"},
                         rejected |-> {o \in O : Verdict(o) # "Eligible"}]}
        /\ UNCHANGED archive

MiningNext == Mine \/ \E e \in JournalRuns : LeaveJournal(e)

MiningSpec == MiningInit /\ [][MiningNext]_miningVars

-----------------------------------------------------------------------------

\* No run disappears: every run found is accepted, or excluded for a named
\* reason, and nothing but a finished run of a known dataset is accepted.
EveryRunAccounted ==
  \A rep \in report : \A i \in rep.found :
    IF i \in rep.accepted THEN archive[i].end = "finished" /\ archive[i].print \notin {"", "absent"}
                          ELSE Exclusions(archive[i]) # {}

\* A candidate is a comparison that has numbers: both of its sides lead the
\* metrics back to the very population the candidate was judged on, each of
\* the five statistics has a delta in both directions, every sample has a
\* duration, and a ratio is missing exactly where the reference is zero.
CandidatesHaveNumbers ==
  \A rep \in report : \A o \in rep.candidates : \A a \in o.sides : \A b \in o.sides \ {a} :
    LET left == ResolveSide(rep.accepted, o, a)
        right == ResolveSide(rep.accepted, o, b)
    IN /\ a.eligible = Cardinality(left.samples) /\ a.scope = b.scope
       /\ \A t \in left.samples : left.value[t] # NoTime
       /\ \A w \in Statistics : LET c == CompareStatistic(left, right, w) IN
            c.delta /\ (c.ratio <=> c.unavailable = {})

\* What the analysis reports is accounted for and comparable.
ReportSound == EveryRunAccounted /\ CandidatesHaveNumbers

\* benchmark_data_comparison.h says of two Legacy builds that they are not
\* assumed to be the same binary; a comparison of two modes within one build
\* takes them for one.  Refuted.
ModesShareBinary ==
  \A rep \in report : \A o \in rep.candidates : o.dimension = "mode" =>
    \A a \in o.sides : a.build[2] = "Known"
=============================================================================
