---------------------------- MODULE BenchmarkJournal ----------------------------
(***************************************************************************)
(* The durable side of a benchmark: runs of BenchmarkRunner, each bound by a *)
(* BenchmarkSession to the one journal of its suite, and what replayJournal  *)
(* makes of the file they leave behind.                                     *)
(*                                                                         *)
(* A record is a line.  The writer inserts its text and then its newline,    *)
(* and the stream is flushed after each insertion, so a process that dies    *)
(* leaves a line that is cut anywhere or lacks only its newline.  The next   *)
(* session appends to whatever is there.                                    *)
(***************************************************************************)
EXTENDS Integers, Sequences, FiniteSets, SequencesExt

CONSTANTS Runs,          \* the runs that use the suite, one session each
          NCases,        \* the files a run discovers
          CaseModes,     \* the modes each file is run in, a sequence
          MaxCrashes,    \* bound on the sessions that do not reach their end: the
                         \* process dies, or an exception leaves the runner
          MaxRecoveries  \* bound on the summaries rebuilt by a recovery

NoRun  == "no run"
NoCase == 0

\* A mode that is asked for twice is an error of the command line.
ASSUME JournalAssumption ==
    /\ NoRun \notin Runs
    /\ NCases \in Nat /\ CaseModes \in Seq(STRING) /\ CaseModes # <<>> /\ IsInjective(CaseModes)
    /\ MaxCrashes \in Nat /\ MaxRecoveries \in Nat

VARIABLES
    lines,       \* runs.jsonl, its complete lines
    tail,        \* what stands after the last newline
    suiteLock,   \* the run whose session holds the lock, or NoRun
    session,     \* state_ of each session
    todo,        \* the records a session is writing, the first one next
    inserted,    \* runs that have inserted a record's text and not its newline
    caseNo,      \* files a run has completed
    cancelAsked, \* isCancelled() of the run
    anyCancelled, \* runs with a case that was cancelled
    abandoned,   \* history: runs whose session was destroyed before its end
    summary,     \* summary.json
    recovery,    \* what a recovery has read and not yet written
    glued,       \* history: a session has appended to a cut line
    journalLeft  \* what remains of the bounds

journalVars == <<lines, tail, suiteLock, session, todo, inserted, caseNo, cancelAsked,
                 anyCancelled, abandoned, summary, recovery, glued, journalLeft>>

Statuses == {"SUCCESS", "FAILED", "CANCELLED", "SKIPPED"}

\* A record as its four fields in the order they are written: the event, the
\* id, the run, the case.
Record(ev, r, c, what) == <<ev, <<ev, r, c, what>>, r, c>>
Ev(l)    == l[1]
Id(l)    == l[2]
RunOf(l) == l[3]
CaseOf(l) == l[4]

Garbage == <<"garbled", <<"garbled">>, "garbled", -1>>

JournalInit ==
    /\ lines = <<>> /\ tail = <<>> /\ suiteLock = NoRun /\ glued = FALSE
    /\ session = [r \in Runs |-> "new"]
    /\ todo = [r \in Runs |-> <<>>] /\ inserted = {}
    /\ caseNo = [r \in Runs |-> 0]
    /\ cancelAsked = {} /\ anyCancelled = {} /\ abandoned = {}
    /\ summary = [run |-> NoRun] /\ recovery = [run |-> NoRun]
    /\ journalLeft = [crashes |-> MaxCrashes, recoveries |-> MaxRecoveries]

-----------------------------------------------------------------------------
(* replayJournal.                                                            *)

\* A flat reader takes the first value it finds for a key.  A fragment with
\* fewer fields leaves the others to the record that was appended to it.
Glue(fragment, record) == fragment \o SubSeq(record, Len(fragment) + 1, 4)

\* A complete line whose event is not one of the five is fatal.
Fatal(ls) == \E i \in DOMAIN ls : Ev(ls[i]) = "garbled"

\* Of two records with the same id the first is kept.
Kept(ls) == {i \in DOMAIN ls : \A j \in 1 .. i - 1 : Id(ls[j]) # Id(ls[i])}

\* A mutant: Records are keyed by case alone.
ReplayOfAnyRun(ls, r, ev) == {i \in Kept(ls) : RunOf(ls[i]) \in Runs /\ Ev(ls[i]) = ev}

ReplayOf(ls, r, ev) == {i \in Kept(ls) : RunOf(ls[i]) = r /\ Ev(ls[i]) = ev}

Committed(ls, r) == ReplayOf(ls, r, "case_complete")

\* The modes that a commit carries: those of its run and case that no earlier
\* commit has taken.
ModesOf(ls, r, i) ==
    {k \in ReplayOf(ls, r, "mode_result") :
        /\ k < i /\ CaseOf(ls[k]) = CaseOf(ls[i])
        /\ \A j \in Committed(ls, r) : k < j /\ j < i => CaseOf(ls[j]) # CaseOf(ls[i])}

Terminal(ls, r) == ReplayOf(ls, r, "run_finished") \cup ReplayOf(ls, r, "run_cancelled")

BuildSummary(r) ==
    [run |-> r,
     started |-> ReplayOf(lines, r, "run_started") # {},
     finished |-> Terminal(lines, r) # {},
     committed |-> Cardinality(Committed(lines, r))]

-----------------------------------------------------------------------------
(* The session.                                                              *)

quiet == <<summary, recovery, journalLeft>>
runner == <<caseNo, cancelAsked, anyCancelled, abandoned>>

Running(r) == session[r] \in {"open", "ending"}

\* The lock comes before the journal; a session that does not get it is Busy.
OpenSession(r) ==
    /\ session[r] = "new"
    /\ IF suiteLock = NoRun
       THEN /\ suiteLock' = r
            /\ session' = [session EXCEPT ![r] = "open"]
            /\ glued' = (glued \/ tail # <<>>)
            /\ todo' = [todo EXCEPT ![r] = <<Record("run_started", r, NoCase, "")>>]
       ELSE /\ session' = [session EXCEPT ![r] = "busy"]
            /\ UNCHANGED <<suiteLock, glued, todo>>
    /\ UNCHANGED <<lines, tail, inserted, runner, quiet>>

\* appendLine, first insertion: the text.
InsertText(r) ==
    /\ Running(r) /\ todo[r] # <<>> /\ r \notin inserted
    /\ tail' = Glue(tail, Head(todo[r]))
    /\ inserted' = inserted \cup {r}
    /\ UNCHANGED <<lines, suiteLock, session, todo, runner, glued, quiet>>

\* Second insertion: the newline.
InsertNewline(r) ==
    /\ Running(r) /\ r \in inserted
    /\ lines' = Append(lines, tail)
    /\ tail' = <<>>
    /\ inserted' = inserted \ {r}
    /\ todo' = [todo EXCEPT ![r] = Tail(@)]
    /\ UNCHANGED <<suiteLock, session, runner, glued, quiet>>

-----------------------------------------------------------------------------
(* The runner.                                                               *)

\* aggregateStatus: cancelled before failed before success.
Aggregate(modes) ==
    CASE "CANCELLED" \in Range(modes) -> "CANCELLED"
      [] "FAILED" \in Range(modes)    -> "FAILED"
      [] "SUCCESS" \in Range(modes)   -> "SUCCESS"
      [] OTHER                        -> "SKIPPED"

RunnerIdle(r) == session[r] = "open" /\ todo[r] = <<>>

\* All modes of the next file, then its records: the modes in order, then the
\* commit.  Once a cancel is asked for, a mode that runs is cancelled and one
\* that has not begun is skipped.
RunCase(r) ==
    /\ RunnerIdle(r)
    /\ caseNo[r] < NCases /\ r \notin cancelAsked
    /\ \E modes \in [DOMAIN CaseModes -> Statuses], asked \in BOOLEAN :
        /\ ("CANCELLED" \in Range(modes)) => asked
        /\ asked => \A k \in DOMAIN modes : modes[k] = "CANCELLED" =>
                        \A n \in k + 1 .. Len(CaseModes) : modes[n] = "SKIPPED"
        /\ cancelAsked' = IF asked THEN cancelAsked \cup {r} ELSE cancelAsked
        /\ anyCancelled' = IF Aggregate(modes) = "CANCELLED" THEN anyCancelled \cup {r} ELSE anyCancelled
        /\ todo' = [todo EXCEPT ![r] =
                [k \in DOMAIN CaseModes |-> Record("mode_result", r, caseNo[r] + 1, CaseModes[k])]
                \o <<Record("case_complete", r, caseNo[r] + 1, "")>>]
    /\ caseNo' = [caseNo EXCEPT ![r] = @ + 1]
    /\ UNCHANGED <<lines, tail, suiteLock, session, inserted, abandoned, glued, quiet>>

\* A cancel between two files.
AskCancel(r) ==
    /\ session[r] = "open" /\ r \notin cancelAsked
    /\ cancelAsked' = cancelAsked \cup {r}
    /\ UNCHANGED <<lines, tail, suiteLock, session, todo, inserted, caseNo, anyCancelled,
                   abandoned, glued, quiet>>

\* The run is over: no file is left, or the test before the next one saw the
\* cancel.  The terminal record says cancelled when a file was not attempted
\* or a case ended so.
Finish(r) ==
    /\ RunnerIdle(r)
    /\ caseNo[r] = NCases \/ r \in cancelAsked
    /\ todo' = [todo EXCEPT ![r] =
            <<Record(IF caseNo[r] < NCases \/ r \in anyCancelled
                     THEN "run_cancelled" ELSE "run_finished", r, NoCase, "")>>]
    /\ session' = [session EXCEPT ![r] = "ending"]
    /\ UNCHANGED <<lines, tail, suiteLock, inserted, runner, glued, quiet>>

\* An exception leaves the runner, its caller returns, and the destructor of
\* the session that is still open records its run as cancelled.
Abandon(r) ==
    /\ RunnerIdle(r) /\ journalLeft.crashes > 0
    /\ journalLeft' = [journalLeft EXCEPT !.crashes = @ - 1]
    /\ todo' = [todo EXCEPT ![r] = <<Record("run_cancelled", r, NoCase, "")>>]
    /\ session' = [session EXCEPT ![r] = "ending"]
    /\ abandoned' = abandoned \cup {r}
    /\ UNCHANGED <<lines, tail, suiteLock, inserted, caseNo, cancelAsked, anyCancelled, glued,
                   summary, recovery>>

\* finalize: the journal is closed, the summary rebuilt from it, the lock freed.
Close(r) ==
    /\ session[r] = "ending" /\ todo[r] = <<>>
    /\ summary' = IF Fatal(lines) THEN summary ELSE BuildSummary(r)
    /\ session' = [session EXCEPT ![r] = "closed"]
    /\ suiteLock' = NoRun
    /\ UNCHANGED <<lines, tail, todo, inserted, runner, glued, recovery, journalLeft>>

-----------------------------------------------------------------------------
(* What may go wrong, and the recovery, which takes no lock.                 *)

\* How a record may be cut: after some of its fields, or inside the next one,
\* whose value then runs into what is appended.
Cuts(fields) ==
    {SubSeq(fields, 1, k) : k \in 0 .. 4}
    \cup {Append(SubSeq(fields, 1, k), Garbage[k + 1]) : k \in 0 .. 3}

\* The process dies or its disk is full: what it was inserting is cut, the
\* operating system frees the lock.
Crash(r) ==
    /\ Running(r) /\ journalLeft.crashes > 0
    /\ journalLeft' = [journalLeft EXCEPT !.crashes = @ - 1]
    /\ tail' \in {tail} \cup
        (IF todo[r] # <<>> /\ r \notin inserted /\ tail = <<>>
         THEN Cuts(Head(todo[r])) ELSE {})
    /\ session' = [session EXCEPT ![r] = "dead"]
    /\ inserted' = inserted \ {r}
    /\ suiteLock' = IF suiteLock = r THEN NoRun ELSE suiteLock
    /\ UNCHANGED <<lines, todo, runner, glued, summary, recovery>>

RecoveryReads(r) ==
    /\ recovery.run = NoRun /\ journalLeft.recoveries > 0
    /\ journalLeft' = [journalLeft EXCEPT !.recoveries = @ - 1]
    /\ ~Fatal(lines)
    /\ recovery' = BuildSummary(r)
    /\ UNCHANGED <<lines, tail, suiteLock, session, todo, inserted, runner, glued, summary>>

RecoveryWrites ==
    /\ recovery.run # NoRun
    /\ summary' = recovery
    /\ recovery' = [run |-> NoRun]
    /\ UNCHANGED <<lines, tail, suiteLock, session, todo, inserted, runner, glued, journalLeft>>

JournalNext ==
    \/ \E r \in Runs : \/ OpenSession(r) \/ InsertText(r) \/ InsertNewline(r) \/ RunCase(r)
                       \/ AskCancel(r) \/ Finish(r) \/ Abandon(r) \/ Close(r) \/ Crash(r) \/ RecoveryReads(r)
    \/ RecoveryWrites

JournalSpec == JournalInit /\ [][JournalNext]_journalVars

-----------------------------------------------------------------------------

JournalTypeOK ==
    /\ suiteLock \in Runs \cup {NoRun}
    /\ session \in [Runs -> {"new", "busy", "open", "ending", "closed", "dead"}]
    /\ \A r \in Runs : Len(todo[r]) <= 1 + Len(CaseModes) /\ caseNo[r] \in 0 .. NCases
    /\ inserted \subseteq Runs /\ cancelAsked \subseteq Runs /\ abandoned \subseteq Runs
    /\ \A i \in DOMAIN lines : Len(lines[i]) = 4
    /\ Len(tail) <= 4

\* The cases of r whose records have all been written.
Written(r) == 1 .. caseNo[r] - Cardinality({k \in DOMAIN todo[r] : Ev(todo[r][k]) = "case_complete"})

\* What a crash leaves is read as it was written: exactly the cases whose
\* commit was written are committed, each once and with all modes of its own
\* run, whatever other runs the journal holds and wherever a process died; as
\* long as nothing was appended to a cut line.
ReplayExact ==
    ~glued =>
        /\ ~Fatal(lines)
        /\ \A r \in Runs :
            LET done == Committed(lines, r)
            IN  /\ {CaseOf(lines[i]) : i \in done} = Written(r)
                /\ Cardinality(done) = Cardinality(Written(r))
                /\ \A i \in done : Cardinality(ModesOf(lines, r, i)) = Len(CaseModes)

\* A terminal record tells the truth: a run is recorded as finished only when
\* every file was attempted and none cancelled, as cancelled only when that was
\* asked for or its session abandoned, and nothing of the run follows it.  No summary claims more than
\* the journal holds.
TerminalTrue ==
    /\ ~glued => \A r \in Runs : \A i \in Terminal(lines, r) :
        /\ IF Ev(lines[i]) = "run_finished"
           THEN Cardinality(Committed(lines, r)) = NCases /\ r \notin anyCancelled
           ELSE r \in cancelAsked \cup abandoned
        /\ \A j \in i + 1 .. Len(lines) : RunOf(lines[j]) # r
    /\ summary.run # NoRun =>
        /\ summary.committed <= Cardinality(Committed(lines, summary.run))
        /\ summary.finished => Terminal(lines, summary.run) # {}

\* "A final line without a terminating newline is a truncated write and is
\* discarded; everything up to the last complete record is used": a journal is
\* never unreadable, and a run that has written its start is replayed as started.
TornTailDiscarded ==
    /\ ~Fatal(lines)
    /\ \A r \in Runs : Running(r) /\ todo[r] = <<>> => ReplayOf(lines, r, "run_started") # {}

\* A run in which a mode was skipped by a cancel is recorded as cancelled.
SkipIsCancel ==
    \A r \in cancelAsked : caseNo[r] = NCases /\ session[r] = "ending" => r \in anyCancelled

\* What is read back from a journal is what happened: a replay restores each
\* run's state, and a run that is called finished has finished.
JournalTrue == ReplayExact /\ TerminalTrue
================================================================================
