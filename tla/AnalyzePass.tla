----------------------------- MODULE AnalyzePass -----------------------------
(***************************************************************************)
(* One run of ScanPipeline::analyze (src/scan_pipeline.cpp): the candidate *)
(* pairs of the indexed files are judged and the matches emitted.  A full  *)
(* pass enumerates the images in windows that workers share, then the      *)
(* videos, then what only the crop indexes find; a targeted pass asks the  *)
(* indexes for the partners of each changed file.                          *)
(*                                                                         *)
(* What the indexes find (CandidateIndex) and what is said of a pair is    *)
(* data, chosen once: the full index of the videos also holds the anchors  *)
(* of their frames, so it brings together videos whose full fingerprints   *)
(* are far apart.  Groups are files.  The periodic polls (every 1024       *)
(* candidates) may come at any candidate.                                  *)
(***************************************************************************)
EXTENDS Naturals, Sequences, FiniteSets, FiniteSetsExt, SequencesExt

CONSTANTS
  NFiles,
  VideoSets,   \* the sets of files that may be the videos
  AWorkers,    \* threads of the image pass
  SliceGroups, \* groups in a window
  PendingMax   \* pending video pairs that make a flush

PassFiles == 1..NFiles

ASSUME PassAssumption ==
  /\ NFiles \in Nat /\ {SliceGroups, PendingMax} \subseteq Nat \ {0}
  /\ VideoSets \subseteq SUBSET PassFiles /\ IsFiniteSet(AWorkers) /\ AWorkers # {}

PassPairs == {p \in PassFiles \X PassFiles : p[1] < p[2]}

VARIABLES
  data,     \* what is indexed, what was changed, and what the pass is asked for
  stage,    \* where the pass is
  from,     \* first group of the window
  next,     \* nextGroup of the image pass
  worker,   \* what a worker does: claim, judge a group, or left
  segs,     \* the segments of the window: by group, the matches of it that are not emitted
  passTodo, \* pairs the sequential loop has still to process
  pending,  \* pendingVideo
  flushing, \* process has called flushVideo
  seen,     \* pairs that are known (dedupCrop)
  emitted,  \* the matches given to onMatch
  stop      \* the stop is requested

passVars == <<data, stage, from, next, worker, segs, passTodo, pending, flushing, seen, emitted, stop>>

IsVideo(p) == p[1] \in data.videos /\ p[2] \in data.videos
IsImage(p) == p[1] \notin data.videos /\ p[2] \notin data.videos
ImageFiles == {f \in PassFiles : f \notin data.videos}
VideoFiles == data.videos

\* The groups of an index are its files, in order.
Rank(f, S) == Cardinality({g \in S : g < f})
FullOf(S) == {p \in data.full : {p[1], p[2]} \subseteq S}
CropOf(S) == {p \in data.crop : {p[1], p[2]} \subseteq S}
Possible(S) == (Cardinality(S) * Cardinality(S) - Cardinality(S)) \div 2

\* included: the mode's filter.
Included(p) ==
  LET ci == p[1] \in data.changed
      cj == p[2] \in data.changed
  IN CASE ~data.targeted -> TRUE
       [] data.targeted /\ ~IsVideo(p) /\ data.skipBoth -> ci # cj
       [] OTHER -> ci \/ cj

\* The order of the sequential enumeration: by group, and in a group as its search
\* finds the partners, for which their numbers stand.
Before(p, q) == p[1] < q[1] \/ (p[1] = q[1] /\ p[2] < q[2])
First(p, S) == p \in S /\ \A q \in S \ {p} : Before(p, q)

\* byGroup, empty.
Groups == 0..NFiles
NoSegments == [g \in Groups |-> {}]

\* What a worker does when it judges no group.
Claims == NFiles + 1
Left == NFiles + 2

-----------------------------------------------------------------------------
\* What is said of the pairs S of one kind: the videos that match at once (bestFull), those
\* that wait for the temporal comparison (trigger, durationGate, anchorSim), and the images
\* and waiting videos that pass their verification.  The other videos are dropped.
Said(videos, S) ==
  {v \in [near : SUBSET S, gated : SUBSET S, good : SUBSET S] :
     /\ v.near \cap v.gated = {}
     /\ \A p \in v.near \cup v.gated : p[1] \in videos
     /\ \A p \in v.good : p[1] \in videos => p \in v.gated}

\* What the pass is given: a full one has no filter and may resume.
Given(videos, full, crop, v) ==
  \E targeted \in BOOLEAN, changed \in SUBSET PassFiles, skipBoth \in BOOLEAN, start \in 0..NFiles :
    /\ IF targeted THEN start = 0 ELSE changed = {} /\ ~skipBoth
    /\ data = [videos |-> videos, full |-> full, crop |-> crop,
               near |-> v.near, gated |-> v.gated, good |-> v.good,
               targeted |-> targeted, changed |-> changed, skipBoth |-> skipBoth, start |-> start]

AnalyzeInit ==
  \* Pairs are of one kind.
  /\ \E videos \in VideoSets :
     LET same == {p \in PassPairs : (p[1] \in videos) = (p[2] \in videos)} IN
     \E full \in SUBSET same, crop \in SUBSET same : \E v \in Said(videos, full \cup crop) :
       Given(videos, full, crop, v)
  /\ stage = IF data.targeted THEN "targeted" ELSE "images"
  /\ from = IF data.start < Cardinality(ImageFiles) THEN data.start ELSE Cardinality(ImageFiles)
  /\ next = 0
  /\ worker = [w \in AWorkers |-> Left]
  /\ segs = NoSegments
  /\ passTodo = IF ~data.targeted THEN {}
                ELSE {p \in data.full \cup data.crop : data.changed \cap {p[1], p[2]} # {}}
  /\ pending = <<>> /\ flushing = FALSE /\ seen = {} /\ emitted = <<>> /\ stop = FALSE

WindowEnd(S) == IF from + SliceGroups < Cardinality(S) THEN from + SliceGroups ELSE Cardinality(S)

RequestStop ==
  /\ ~stop /\ stage # "done"
  /\ stop' = TRUE
  /\ UNCHANGED <<data, stage, from, next, worker, segs, passTodo, pending, flushing, seen, emitted>>

\* LocalCancel: what was emitted stays.
Cancel == stage' = "done" /\ passTodo' = {} /\ pending' = <<>> /\ flushing' = FALSE

-----------------------------------------------------------------------------
\* The image pass.

OpenWindow ==
  /\ stage = "images"
  /\ IF from >= Cardinality(ImageFiles)
     THEN /\ stage' = "videos"
          /\ from' = 0
          /\ UNCHANGED <<next, worker>>
     ELSE /\ stage' = "window"
          /\ next' = from
          /\ worker' = [w \in AWorkers |-> Claims]
          /\ UNCHANGED from
  /\ segs' = NoSegments
  /\ UNCHANGED <<data, passTodo, pending, flushing, seen, emitted, stop>>

\* A worker claims the next group, or leaves.
Claim(w) ==
  /\ stage = "window" /\ worker[w] = Claims
  /\ next' = next + 1
  /\ worker' = [worker EXCEPT ![w] = IF next < WindowEnd(ImageFiles) THEN next ELSE Left]
  /\ UNCHANGED <<data, stage, from, segs, passTodo, pending, flushing, seen, emitted, stop>>

\* The image pairs of a group that match.
Matching(g) == {p \in FullOf(ImageFiles) : Rank(p[1], ImageFiles) = g /\ p \in data.good}

\* It has judged its group: the segment is kept.
Judge(w) ==
  /\ stage = "window" /\ worker[w] < Claims
  /\ segs' = [segs EXCEPT ![worker[w]] = Matching(worker[w])]
  /\ worker' = [worker EXCEPT ![w] = Claims]
  /\ UNCHANGED <<data, stage, from, next, passTodo, pending, flushing, seen, emitted, stop>>

\* A poll inside a group sees the stop: the segment is lost and the worker leaves.
Abandon(w) ==
  /\ stage = "window" /\ worker[w] < Claims /\ stop
  /\ worker' = [worker EXCEPT ![w] = Left]
  /\ UNCHANGED <<data, stage, from, next, segs, passTodo, pending, flushing, seen, emitted, stop>>

\* The workers have left: their segments are emitted in the order of the groups.
Merges == stage = "window" /\ \A w \in AWorkers : worker[w] = Left

EmitNext ==
  /\ Merges
  /\ \E g \in Groups :
       /\ \A k \in Groups : k < g => segs[k] = {}
       /\ \E p \in segs[g] :
            /\ First(p, segs[g])
            /\ emitted' = Append(emitted, p)
            /\ segs' = [segs EXCEPT ![g] = @ \ {p}]
  /\ UNCHANGED <<data, stage, from, next, worker, passTodo, pending, flushing, seen, stop>>

\* All are emitted: checkpoint, and see whether to go on.
CloseWindow ==
  /\ Merges /\ segs = NoSegments
  /\ from' = WindowEnd(ImageFiles)
  /\ IF stop THEN Cancel ELSE stage' = "images" /\ UNCHANGED <<passTodo, pending, flushing>>
  /\ segs' = NoSegments
  /\ UNCHANGED <<data, next, worker, seen, emitted, stop>>

-----------------------------------------------------------------------------
\* The sequential loops.

Sequential == stage \in {"videoWindow", "crops", "targeted"}

\* flushVideo: the pending pairs are compared frame by frame, in their order; once
\* a stop is requested each may be left out.  A window and a pass end with it.
FlushNext ==
  /\ Sequential /\ pending # <<>> /\ (flushing \/ passTodo = {})
  /\ \/ emitted' = IF Head(pending) \in data.good THEN Append(emitted, Head(pending)) ELSE emitted
     \/ stop /\ UNCHANGED emitted
  /\ pending' = Tail(pending)
  /\ flushing' = (flushing /\ Len(pending) > 1)
  /\ UNCHANGED <<data, stage, from, next, worker, segs, passTodo, seen, stop>>

\* The next window of videos, whose pairs come after the last window's flush.
OpenVideoWindow ==
  /\ stage = "videos"
  /\ IF from >= Cardinality(VideoFiles)
     THEN stage' = "seed" /\ UNCHANGED <<from, passTodo>>
     ELSE /\ stage' = "videoWindow"
          /\ passTodo' = {p \in FullOf(VideoFiles) : Rank(p[1], VideoFiles) \in from..(WindowEnd(VideoFiles) - 1)}
          /\ from' = WindowEnd(VideoFiles)
  /\ UNCHANGED <<data, next, worker, segs, pending, flushing, seen, emitted, stop>>

CloseVideoWindow ==
  /\ stage = "videoWindow" /\ passTodo = {} /\ pending = <<>>
  /\ IF stop THEN Cancel ELSE stage' = "videos" /\ UNCHANGED <<passTodo, pending, flushing>>
  /\ UNCHANGED <<data, from, next, worker, segs, seen, emitted, stop>>

\* The images, or the videos, whose full index has not covered every pair.
Incomplete ==
  (IF Cardinality({p \in FullOf(ImageFiles) : Rank(p[1], ImageFiles) >= data.start}) < Possible(ImageFiles)
   THEN ImageFiles ELSE {})
  \cup (IF Cardinality(FullOf(VideoFiles)) < Possible(VideoFiles) THEN VideoFiles ELSE {})

\* The crop pass: the pairs of the full index are known, also those of the
\* windows that a resumed pass has skipped.
Seed ==
  /\ stage = "seed"
  /\ stage' = "crops"
  /\ seen' = FullOf(Incomplete)
  /\ passTodo' = CropOf(Incomplete)
  /\ UNCHANGED <<data, from, next, worker, segs, pending, flushing, emitted, stop>>

\* process: one candidate pair; several indexes, searched in turn, bring those of the
\* crop passes and of a targeted pass.
Process ==
  /\ Sequential /\ ~flushing
  /\ \E p \in passTodo :
       LET known == stage # "videoWindow" /\ p \in seen
           waits == ~known /\ Included(p) /\ p \in data.gated
           matches == ~known /\ Included(p) /\ (p \in data.near \/ (IsImage(p) /\ p \in data.good))
       IN /\ stage = "videoWindow" => First(p, passTodo)
          /\ passTodo' = passTodo \ {p}
          /\ seen' = IF stage = "videoWindow" THEN seen ELSE seen \cup {p}
          /\ pending' = IF waits THEN Append(pending, p) ELSE pending
          /\ flushing' = (waits /\ Len(pending) + 1 >= PendingMax)
          /\ emitted' = IF matches THEN Append(emitted, p) ELSE emitted
  /\ UNCHANGED <<data, stage, from, next, worker, segs, stop>>

\* A poll, or the end of a window, sees the stop.
SeeStop ==
  /\ Sequential /\ stop
  /\ Cancel
  /\ UNCHANGED <<data, from, next, worker, segs, seen, emitted, stop>>

\* The last flush is over.
FinishPass ==
  /\ stage \in {"crops", "targeted"} /\ passTodo = {} /\ pending = <<>>
  /\ stage' = "done"
  /\ UNCHANGED <<data, from, next, worker, segs, passTodo, pending, flushing, seen, emitted, stop>>

AnalyzeNext ==
  \/ RequestStop
  \/ OpenWindow \/ EmitNext \/ CloseWindow
  \/ \E w \in AWorkers : Claim(w) \/ Judge(w) \/ Abandon(w)
  \/ OpenVideoWindow \/ CloseVideoWindow \/ Seed \/ Process \/ FlushNext \/ SeeStop \/ FinishPass

AnalyzeSpec == AnalyzeInit /\ [][AnalyzeNext]_passVars

-----------------------------------------------------------------------------
\* Types of the variables.
AnalyzeTypeOK ==
  /\ stage \in {"images", "window", "videos", "videoWindow", "seed", "crops", "targeted", "done"}
  /\ from \in 0..NFiles /\ next \in 0..(NFiles + Cardinality(AWorkers))
  /\ worker \in [AWorkers -> 0..Left]
  /\ segs \in [Groups -> SUBSET PassPairs]
  /\ passTodo \subseteq PassPairs /\ seen \subseteq PassPairs
  /\ {pending, emitted} \subseteq Seq(PassPairs) /\ {flushing, stop} \subseteq BOOLEAN
  /\ Len(pending) <= PendingMax /\ (flushing => Len(pending) > 0)

\* The pairs a pass should report: some index brings the two together, the
\* filter lets them pass, they match at once or pass their verification, and they
\* were not reported by the pass that is resumed.
Due ==
  {p \in data.full \cup data.crop :
     /\ Included(p)
     /\ p \in data.near \cup data.good
     /\ ~(p \in FullOf(ImageFiles) /\ Rank(p[1], ImageFiles) < data.start)}

\* A pass reports no pair twice and none that is not due; one that ends without
\* a stop reports every due pair (analyze: workers, windows, crop pass, resume).
PassExact ==
  /\ IsInjective(emitted) /\ ToSet(emitted) \subseteq Due
  /\ stage = "done" /\ ~stop => ToSet(emitted) = Due

\* The image matches of the full index come in the order of the sequential
\* pass, however the workers shared the groups, also when it is stopped.
OrderKept ==
  ~data.targeted =>
    \A a, b \in DOMAIN emitted :
      a < b /\ {emitted[a], emitted[b]} \subseteq FullOf(ImageFiles) => Before(emitted[a], emitted[b])
=============================================================================
