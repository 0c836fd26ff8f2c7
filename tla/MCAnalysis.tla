------------------------------- MODULE MCAnalysis -------------------------------
(***************************************************************************)
(* Instances for TLC of what the analysis computes: the candidates for a     *)
(* hash (CandidateIndex), the final pass over them (AnalyzePass), the        *)
(* fingerprints of videos and their cache (VideoCache), the frames that a    *)
(* decoder's sweep delivers (VideoSweep), and the buffers of the             *)
(* verification (VerifyCache).                                              *)
(*                                                                         *)
(* They share no variable, so that one of them at a time is run: part names  *)
(* it, and what belongs to the others keeps its first value.                *)
(***************************************************************************)
EXTENDS CandidateIndex, AnalyzePass, VideoCache, VideoSweep, VerifyCache

CONSTANTS x, y, w1, w2, m1, m2   \* videos, threads, images

VARIABLE part
analysisVars == <<entries, passVars, videoVars, sweepVars, verifyVars, part>>

\* The values of the constants that a .cfg cannot write.
LastVideos    == {{}, {2, 3}, {1, 2, 3}}
AskedBy       == [w \in {w1, w2} |-> IF w = w1 THEN {x} ELSE {x, y}]
Plans         == {{}, {0, 3}, {1, 3, 5}, {2, 4}}
VerifiedPairs == {<<m1, m2>>}

\* A part that is not run has one first state.
AnalysisInit ==
    /\ part \in {"candidates", "pass", "prints", "sweep", "buffers"}
    /\ CandidateInit
    /\ AnalyzeInit /\ (part # "pass" =>
          data.full = {} /\ data.crop = {} /\ data.videos = {} /\ ~data.targeted /\ data.start = 0)
    /\ VideoInit /\ (part # "prints" =>
          policy = "p" /\ rows = [f \in Videos |-> {}] /\ call[w1].file = x)
    /\ SweepInit /\ (part # "sweep" => plan = {0, 3} /\ anchors = {} /\ ~hw)
    /\ VerifyInit /\ (part # "buffers" => job[CHOOSE v \in Verifiers : TRUE].pair = <<m1, m1>>)

AnalysisNext ==
    /\ UNCHANGED part
    /\ IF part = "candidates" THEN CandidateNext ELSE UNCHANGED entries
    /\ IF part = "pass"       THEN AnalyzeNext   ELSE UNCHANGED passVars
    /\ IF part = "prints"     THEN VideoNext     ELSE UNCHANGED videoVars
    /\ IF part = "sweep"      THEN SweepNext     ELSE UNCHANGED sweepVars
    /\ IF part = "buffers"    THEN VerifyNext    ELSE UNCHANGED verifyVars

AnalysisSpec == AnalysisInit /\ [][AnalysisNext]_analysisVars

-----------------------------------------------------------------------------

\* The types of all of them.
AnalysisTypeOK ==
    CandidateTypeOK /\ AnalyzeTypeOK /\ VideoTypeOK /\ SweepTypeOK /\ VerifyTypeOK

\* A candidate search finds what is near, and the pass over the candidates
\* reports each true pair once, in the order a single thread would.
PairsExact == EnumerationSound /\ QueryExact /\ PassExact /\ OrderKept

\* What a cache serves was made from the file as it was asked for: a video's
\* fingerprint under the policy in force, an image's buffer, found by the path,
\* size and time it was decoded for.
CachesTrue == PrintTrue /\ MapLeadsToNodes /\ BuffersTrue
================================================================================
