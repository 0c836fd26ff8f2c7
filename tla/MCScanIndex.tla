------------------------------ MODULE MCScanIndex ------------------------------
(* ScanIndex for TLC: what its behaviours are about.                         *)
EXTENDS ScanIndex

\* All first versions look alike but that of file 3, whose second one does.
\* Otherwise a changed file looks like nothing else or cannot be decoded.
Diverging ==
    [f \in Files |-> [v \in Versions |->
        IF (v = 1) = (f # 3) THEN 1 ELSE IF f = 2 THEN 0 ELSE 1 + f]]

Whole  == [ignored |-> {}, skipped |-> {}]
But(f) == {[ignored |-> {f}, skipped |-> {}], [ignored |-> {}, skipped |-> {f}]}

\* Files that change, vanish, come back, are left out and taken up again, in
\* scans that are stopped or fail early.
Changes == [folder |-> {1, 2}, modes |-> {"Sequential", "Hybrid"}, scopes |-> {Whole} \cup But(1),
            edits |-> 2, may |-> {"stop", "dbFail", "failEarly", "return"}]

\* A process that dies while the disk changes.
Deaths == [folder |-> Files, modes |-> Modes, scopes |-> {Whole}, edits |-> 2,
           may |-> {"kill", "throwOpen"}]

\* A save, a statement or an analysis that fails.
Faults == [folder |-> Files, modes |-> {"Live", "Hybrid"}, scopes |-> {Whole}, edits |-> 2,
           may |-> {"stop", "saveFail", "dbFail", "throw", "return"}]

ThreeSettings == {Changes, Deaths, Faults}

\* Scans of a folder nobody touches, that may be stopped or die.
Restarts == {[folder |-> Files, modes |-> {"Live"}, scopes |-> {Whole}, edits |-> 0,
              may |-> {"stop", "kill"}]}

\* Sequential scans of a folder nobody touches, that may be stopped.
Stops == {[folder |-> Files, modes |-> {"Sequential"}, scopes |-> {Whole}, edits |-> 0,
           may |-> {"stop"}]}
===============================================================================
