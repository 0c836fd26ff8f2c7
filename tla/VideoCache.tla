---------------------------- MODULE VideoCache ----------------------------
(***************************************************************************)
(* The two caches of VideoFingerprintEngine (src/video_fingerprint.cpp): a  *)
(* 64-entry LRU in memory, and one SQLite row per path.  The scan loop      *)
(* calls build() for the fingerprint, the pair analysis calls buildFull()   *)
(* for the fingerprint and its crop fingerprints, both from several         *)
(* threads, and files may be rewritten meanwhile.  An entry is filed under  *)
(* the size and time read when the call began and under the quick hash read *)
(* when it is stored; a version of a file stands for all three.  An engine  *)
(* lives for one scan and its sampling policy is set once, before it.       *)
(***************************************************************************)
EXTENDS Naturals, Sequences

CONSTANTS
    Videos,       \* the video files
    VWorkers,     \* the threads that ask for fingerprints
    Asks,         \* bound: thread -> the files it may ask about
    Rewritten,    \* bound: the files that are rewritten and may have an old row
    Policies,     \* the sampling policies a scan may run under
    MaxVideoVersion,   \* bound: versions of a file
    MemoryCap     \* kMemoryCacheMax

ASSUME VideoAssumption ==
    /\ {MaxVideoVersion, MemoryCap} \subseteq Nat \ {0}
    /\ Rewritten \subseteq Videos /\ \A w \in VWorkers : Asks[w] \subseteq Videos

VARIABLES
    version,      \* file -> its version on the disk
    memory,       \* cacheList_, the most recent entry first
    rows,         \* file -> the rows stored for it: none or one
    policy,       \* videoPolicy_ of this scan's engine
    call          \* thread -> the call it runs

videoVars == <<version, memory, rows, policy, call>>

Versions == 1..MaxVideoVersion

\* No crop fingerprint: every vector of the VideoCropFingerprint is empty.
NoCrop == 0

\* A fingerprint: the version that was decoded and the policy it was sampled by.
Prints == [of : Versions, under : Policies]

Entries == [file : Videos, stat : Versions, quick : Versions, print : Prints,
            crop : Versions \cup {NoCrop}, hasCrop : BOOLEAN, policyId : Policies]

Rows == [stat : Versions, quick : Versions, policyId : Policies, print : Prints,
         crop : Versions \cup {NoCrop}]

Steps == {"idle", "memory", "row", "keep", "decode", "store", "save", "done", "failed"}

\* A call: what it wants, its progress, the version its stat call saw, its answer.
Calls == [full : BOOLEAN, file : Videos, at : Steps, stat : Versions,
          print : Prints, crop : Versions \cup {NoCrop}]

VideoTypeOK ==
    /\ version \in [Videos -> Versions]
    /\ memory \in Seq(Entries) /\ Len(memory) =< MemoryCap
    /\ \A i, j \in 1..Len(memory) : memory[i].file = memory[j].file => i = j
    /\ \A f \in Videos : rows[f] = {} \/ \E r \in Rows : rows[f] = {r}
    /\ policy \in Policies
    /\ call \in [VWorkers -> Calls]

\* What earlier scans left of a file: nothing, or the row of some policy, with or
\* without crops.
Leftovers ==
    {{}} \cup {{[stat |-> 1, quick |-> 1, policyId |-> q,
               print |-> [of |-> 1, under |-> q], crop |-> c]} :
                 q \in Policies, c \in {NoCrop, 1}}

\* A scan begins: a new engine, and the rows earlier scans left.
VideoInit ==
    /\ version = [f \in Videos |-> 1]
    /\ memory = << >>
    /\ rows \in [Videos -> Leftovers]
    /\ \A f \in Videos \ Rewritten : rows[f] = {}
    /\ policy \in Policies
    /\ \E f \in Videos :
         call = [w \in VWorkers |-> [full |-> FALSE, file |-> f, at |-> "idle", stat |-> 1,
                                     print |-> [of |-> 1, under |-> policy], crop |-> NoCrop]]

-----------------------------------------------------------------------------
\* A mutant: the size and the time are not compared, only the quick hash is.
UsableByHash(e, c) ==
    /\ e.file = c.file
    /\ e.quick = version[c.file]
    /\ e.policyId = policy
    /\ c.full => e.hasCrop

\* The entry of a file is usable: same stamps, same policy, crops when needed.
Usable(e, c) ==
    /\ e.file = c.file
    /\ e.stat = c.stat /\ e.quick = version[c.file]
    /\ e.policyId = policy
    /\ c.full => e.hasCrop

\* The list with its entry i moved to the front.
Fronted(s, i) == <<s[i]>> \o SubSeq(s, 1, i - 1) \o SubSeq(s, i + 1, Len(s))

\* A mutant: a new entry goes to the front, and no old one goes.
StoredUntrimmed(c, cropGiven) ==
    <<[file |-> c.file, stat |-> c.stat, quick |-> version[c.file], print |-> c.print,
       crop |-> IF cropGiven THEN c.crop ELSE NoCrop, hasCrop |-> cropGiven,
       policyId |-> policy]>> \o SelectSeq(memory, LAMBDA m : m.file # c.file)

\* memoryStore for call c.  An entry that is there already takes the new stamps
\* and fingerprint, but keeps its policy, and its crops unless new ones are given.
Stored(c, cropGiven) ==
    LET at == {i \in 1..Len(memory) : memory[i].file = c.file}
        fresh == [file |-> c.file, stat |-> c.stat, quick |-> version[c.file],
                  print |-> c.print, crop |-> IF cropGiven THEN c.crop ELSE NoCrop,
                  hasCrop |-> cropGiven, policyId |-> policy]
    IN  IF at # {}
        THEN LET i == CHOOSE i \in at : TRUE
                 kept == [fresh EXCEPT
                            !.policyId = memory[i].policyId,
                            !.crop = IF cropGiven THEN c.crop ELSE memory[i].crop,
                            !.hasCrop = cropGiven \/ memory[i].hasCrop]
             IN  Fronted([memory EXCEPT ![i] = kept], i)
        ELSE <<fresh>> \o SubSeq(memory, 1, IF Len(memory) < MemoryCap THEN Len(memory)
                                                                       ELSE MemoryCap - 1)

Goes(w, step) == call' = [call EXCEPT ![w].at = step]

-----------------------------------------------------------------------------
\* build() and buildFull() begin alike: the file's size and time are read.
Begin(w, f, full) ==
    /\ call[w].at \in {"idle", "done", "failed"}
    /\ call' = [call EXCEPT ![w] = [@ EXCEPT !.full = full, !.file = f, !.at = "memory",
                                             !.stat = version[f], !.crop = NoCrop,
                                             !.print = [of |-> version[f], under |-> policy]]]
    /\ UNCHANGED <<version, memory, rows, policy>>

\* memoryLookup: a usable entry answers the call and becomes the most recent.
LookupMemory(w) ==
    /\ call[w].at = "memory"
    /\ \/ \E i \in 1..Len(memory) :
            /\ Usable(memory[i], call[w])
            /\ memory' = Fronted(memory, i)
            /\ call' = [call EXCEPT ![w].at = "done", ![w].print = memory[i].print,
                          ![w].crop = IF call[w].full THEN memory[i].crop ELSE NoCrop]
       \/ /\ \A i \in 1..Len(memory) : ~Usable(memory[i], call[w])
          /\ Goes(w, "row") /\ UNCHANGED memory
    /\ UNCHANGED <<version, rows, policy>>

\* The row of the file that loadPersistent's SELECT finds.
MatchingRows(c) ==
    {r \in rows[c.file] : r.stat = c.stat /\ r.quick = version[c.file] /\ r.policyId = policy}

\* loadPersistent.  A row without crops is a well-formed row with zero crops,
\* which is an answer to buildFull() too.
LoadRow(w) ==
    /\ call[w].at = "row"
    /\ \/ \E r \in MatchingRows(call[w]) :
            call' = [call EXCEPT ![w].at = "keep", ![w].print = r.print, ![w].crop = r.crop]
       \/ MatchingRows(call[w]) = {} /\ Goes(w, "decode")
    /\ UNCHANGED <<version, memory, rows, policy>>

\* What a row gave is stored in memory, with the crops it had, if any.
KeepRow(w) ==
    /\ call[w].at = "keep"
    /\ memory' = Stored(call[w], TRUE)
    /\ Goes(w, "done")
    /\ UNCHANGED <<version, rows, policy>>

\* The file is opened and swept: its frames give the fingerprint, and the crops
\* when buildFull() asked.
Decode(w) ==
    /\ call[w].at = "decode"
    /\ LET v == version[call[w].file]
       IN  call' = [call EXCEPT ![w].at = "store",
                                ![w].print = [of |-> v, under |-> policy],
                                ![w].crop = IF call[w].full THEN v ELSE NoCrop]
    /\ UNCHANGED <<version, memory, rows, policy>>

\* The file cannot be decoded, or a stop landed in the sweep or just after it:
\* nothing is stored.
DecodeFails(w) ==
    /\ call[w].at \in {"decode", "store"}
    /\ call[w].at = "store" => ~call[w].full
    /\ Goes(w, "failed")
    /\ UNCHANGED <<version, memory, rows, policy>>

\* memoryStore of what was decoded; build() has no crops to give.
StoreMemory(w) ==
    /\ call[w].at = "store"
    /\ memory' = Stored(call[w], call[w].full)
    /\ Goes(w, "save")
    /\ UNCHANGED <<version, rows, policy>>

\* savePersistent: the row of the path is replaced, crops and all.
SaveRow(w) ==
    /\ call[w].at = "save"
    /\ rows' = [rows EXCEPT ![call[w].file] =
                  {[stat |-> call[w].stat, quick |-> version[call[w].file],
                    policyId |-> policy, print |-> call[w].print, crop |-> call[w].crop]}]
    /\ Goes(w, "done")
    /\ UNCHANGED <<version, memory, policy>>

\* The write fails (the database is busy too long): nobody looks at its result.
SaveFails(w) ==
    /\ call[w].at = "save"
    /\ Goes(w, "done")
    /\ UNCHANGED <<version, memory, rows, policy>>

\* The environment rewrites a file.
EditVideo(f) ==
    /\ version[f] < MaxVideoVersion
    /\ version' = [version EXCEPT ![f] = @ + 1]
    /\ UNCHANGED <<memory, rows, policy, call>>

VideoNext ==
    \/ \E w \in VWorkers :
         \/ \E f \in Asks[w], full \in BOOLEAN : Begin(w, f, full)
         \/ LookupMemory(w) \/ LoadRow(w) \/ KeepRow(w)
         \/ Decode(w) \/ DecodeFails(w)
         \/ StoreMemory(w) \/ SaveRow(w) \/ SaveFails(w)
    \/ \E f \in Rewritten : EditVideo(f)

VideoSpec == VideoInit /\ [][VideoNext]_videoVars

-----------------------------------------------------------------------------
(* Properties                                                              *)

\* Whoever decoded it and however the threads interleaved with rewrites of the
\* file, an answered call got the fingerprint of a version the file had during the
\* call, sampled under this scan's policy.
PrintTrue ==
    \A w \in VWorkers : call[w].at = "done" =>
        /\ call[w].print.of \in call[w].stat..version[call[w].file]
        /\ call[w].print.under = policy

\* Refuted: the analysis has the crop fingerprints of the videos it compares
\* ("crop_temporal_score still catches true cropped duplicates").  The scan loop's
\* build() stores a row with no crops, which then answers buildFull().
FullHasCrops ==
    \A w \in VWorkers : call[w].at = "done" /\ call[w].full => call[w].crop # NoCrop

\* Refuted: the crops of an answer belong to its fingerprint.  An entry that is
\* stored again by build() keeps the crops of the version it held before.
CropsOfPrint ==
    \A w \in VWorkers :
        call[w].at = "done" /\ call[w].full => call[w].crop \in {NoCrop, call[w].print.of}
=============================================================================
