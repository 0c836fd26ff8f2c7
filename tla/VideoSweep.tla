---------------------------- MODULE VideoSweep ----------------------------
(***************************************************************************)
(* One sweep over a video (VideoDecoder::framesAt, src/video_decoder.cpp)   *)
(* as build() uses it (src/video_fingerprint.cpp): the sample plan of the   *)
(* fingerprint and the plan of the anchor index are merged into one list of *)
(* targets, the stream is decoded once, each target takes the first frame   *)
(* at or after it, and the samples are dealt back to the two plans.  Frames *)
(* may be lost or carry no time, the read may be cut short, a hardware      *)
(* frame may not come down from the GPU, and a stop may land anywhere.      *)
(* Times are in units of the frame grid, the frames are at 0..Length-1, and *)
(* the last Lag of them surface only when the decoder is drained.           *)
(***************************************************************************)
EXTENDS Integers, Sequences, FiniteSets

CONSTANTS
    Length,    \* how many frames the stream has
    Lag,       \* how many the decoder holds back (reordered frames)
    Slack,     \* how far the last frame may be before a target it excuses
    PlanSets   \* the sets of times a plan may ask for

ASSUME SweepAssumption ==
    /\ Length \in Nat \ {0} /\ Lag \in 0..Length /\ Slack \in Nat
    /\ PlanSets \subseteq SUBSET Nat /\ \A times \in PlanSets : IsFiniteSet(times)

VARIABLES
    plan,      \* the times of the fingerprint's samples
    anchors,   \* the times of the anchor index, none unless it is armed
    hw,        \* hwActive_: the frames come from the hardware decoder
    sweep,     \* where the sweep is
    pos,       \* the frame that surfaces next
    end,       \* how many frames surface in all
    out,       \* out: the samples taken so far
    lastT,     \* lastDecodedT, -1 before any frame
    stopped,   \* the cancel flag
    decoded,   \* the times of the frames received (decodedOut counts them)
    faults,    \* what befell the sweep (only the properties look)
    samples    \* the fingerprint's own samples, when build() has them

sweepVars == <<plan, anchors, hw, sweep, pos, end, out, lastT, stopped, decoded, faults, samples>>

\* The targets of the sweep are the times of both plans, each once, in order.
Targets == plan \cup anchors

\* How many targets a frame at time t serves or leaves behind.
ReachedBy(t) == Cardinality({x \in Targets : x =< t})

\* The k-th target.
Target(k) == CHOOSE x \in Targets : ReachedBy(x) = k

Times == (UNION PlanSets) \cup (0..Length)

Samples == Seq([time : Times, from : {"hardware", "software"}])

Faults == {"lost", "untimed", "cut", "undrained", "download", "emit"}

SweepTypeOK ==
    /\ plan \in PlanSets /\ anchors \in PlanSets /\ hw \in BOOLEAN
    /\ sweep \in {"reading", "draining", "checking", "reopening", "done", "failed"}
    /\ pos \in 0..end /\ end \in 0..Length
    /\ out \in Samples /\ Len(out) =< Cardinality(Targets)
    /\ lastT \in Times \cup {-1} /\ stopped \in BOOLEAN
    /\ decoded \subseteq 0..Length /\ faults \subseteq Faults
    /\ samples \in Samples

\* build() has merged its plans and opened the file, in hardware if that worked.
SweepInit ==
    /\ plan \in PlanSets \ {{}} /\ anchors \in PlanSets
    /\ hw \in BOOLEAN
    /\ sweep = "reading" /\ pos = 0 /\ end = Length /\ out = << >> /\ lastT = -1
    /\ stopped = FALSE /\ decoded = {} /\ faults = {} /\ samples = << >>

-----------------------------------------------------------------------------
\* The samples after a frame at time t: all the targets it reaches take it.
Taking(t) ==
    out \o [i \in 1..(ReachedBy(t) - Len(out)) |->
              [time |-> t, from |-> IF hw THEN "hardware" ELSE "software"]]

\* A frame at time t is received: the pending targets it reaches take it, and the
\* sweep is over when none is left.
Receive(t) ==
    /\ lastT' = t
    /\ decoded' = decoded \cup {pos}
    /\ pos' = pos + 1
    /\ IF ReachedBy(t) > Len(out)
       THEN /\ out' = Taking(t)
            /\ sweep' = IF ReachedBy(t) = Cardinality(Targets) THEN "checking" ELSE sweep
       ELSE UNCHANGED <<out, sweep>>

\* A frame surfaces while packets are read, or while the decoder is drained.
Surfaces ==
    \/ sweep = "reading" /\ ~stopped /\ pos < Length - Lag
    \/ sweep = "draining" /\ pos < end

\* A frame with its time.
Frame ==
    /\ Surfaces
    /\ Receive(pos)
    /\ UNCHANGED <<plan, anchors, hw, end, stopped, faults, samples>>

\* A frame that carries no time is taken to be at the next target.
UntimedFrame ==
    /\ Surfaces
    /\ Receive(Target(Len(out) + 1))
    /\ faults' = faults \cup {"untimed"}
    /\ UNCHANGED <<plan, anchors, hw, end, stopped, samples>>

\* The decoder rejects a packet: its frame is lost, and the loss is only counted.
LoseFrame ==
    /\ Surfaces /\ sweep = "reading"
    /\ pos' = pos + 1
    /\ faults' = faults \cup {"lost"}
    /\ UNCHANGED <<plan, anchors, hw, sweep, end, out, lastT, stopped, decoded, samples>>

\* The end of the file: what the decoder holds is drained.
EndOfFile ==
    /\ sweep = "reading" /\ ~stopped /\ pos = Length - Lag
    /\ sweep' = "draining"
    /\ UNCHANGED <<plan, anchors, hw, pos, end, out, lastT, stopped, decoded, faults, samples>>

\* A read error ends the loop like the end of the file does.
ReadError ==
    /\ sweep = "reading" /\ ~stopped /\ pos < Length - Lag
    /\ sweep' = "draining"
    /\ end' = pos + Lag
    /\ faults' = faults \cup {"cut"}
    /\ UNCHANGED <<plan, anchors, hw, pos, out, lastT, stopped, decoded, samples>>

\* The decoder refuses to be drained.
DrainRefused ==
    /\ sweep = "draining" /\ pos < end
    /\ sweep' = "checking"
    /\ faults' = faults \cup {"undrained"}
    /\ UNCHANGED <<plan, anchors, hw, pos, end, out, lastT, stopped, decoded, samples>>

\* The decoder is empty.
Drained ==
    /\ sweep = "draining" /\ pos = end
    /\ sweep' = "checking"
    /\ UNCHANGED <<plan, anchors, hw, pos, end, out, lastT, stopped, decoded, faults, samples>>

\* A hardware frame cannot be brought to memory: the sweep fails, and is run again
\* in software if no sample had been taken and no stop is wanted.
DownloadFails ==
    /\ Surfaces /\ hw
    /\ sweep' = IF out = << >> /\ ~stopped THEN "reopening" ELSE "failed"
    /\ out' = << >>
    /\ faults' = faults \cup {"download"}
    /\ UNCHANGED <<plan, anchors, hw, pos, end, lastT, stopped, decoded, samples>>

\* The software decoder is opened and the sweep starts over, from nothing.
Reopen ==
    /\ sweep = "reopening"
    /\ hw' = FALSE /\ sweep' = "reading"
    /\ pos' = 0 /\ end' = Length /\ out' = << >> /\ lastT' = -1 /\ decoded' = {}
    /\ UNCHANGED <<plan, anchors, stopped, faults, samples>>

\* The software decoder cannot be opened either.
ReopenFails ==
    /\ sweep = "reopening"
    /\ sweep' = "failed"
    /\ UNCHANGED <<plan, anchors, hw, pos, end, out, lastT, stopped, decoded, faults, samples>>

\* A frame cannot be converted: the sweep fails with nothing.
EmitFails ==
    /\ Surfaces /\ ReachedBy(pos) > Len(out)
    /\ sweep' = "failed" /\ out' = << >>
    /\ faults' = faults \cup {"emit"}
    /\ UNCHANGED <<plan, anchors, hw, pos, end, lastT, stopped, decoded, samples>>

\* A stop (or the stall watchdog) sets the flag; the reader sees it between packets.
Stop ==
    /\ sweep \notin {"done", "failed"} /\ ~stopped
    /\ stopped' = TRUE
    /\ UNCHANGED <<plan, anchors, hw, sweep, pos, end, out, lastT, decoded, faults, samples>>

StopSeen ==
    /\ sweep = "reading" /\ stopped
    /\ sweep' = "checking"
    /\ UNCHANGED <<plan, anchors, hw, pos, end, out, lastT, stopped, decoded, faults, samples>>

\* What a finished sweep must be to count: not stopped, not empty, nothing missing
\* but targets the last frame nearly reached, and its times in order.
Complete ==
    /\ ~stopped
    /\ out # << >>
    /\ \A k \in Len(out) + 1..Cardinality(Targets) : Target(k) =< lastT + Slack
    /\ \A i \in 1..Len(out) - 1 : out[i].time =< out[i + 1].time

\* A mutant: the first samples are the fingerprint's, by their number alone.
DealtByNumber == [i \in 1..(Cardinality(plan) - (Cardinality(Targets) - Len(out))) |-> out[i]]

\* The samples of the fingerprint: sample k of the sweep is for target k.
Dealt ==
    LET mine == {k \in 1..Len(out) : Target(k) \in plan}
    IN  [i \in 1..Cardinality(mine) |->
           out[CHOOSE k \in mine : Cardinality({j \in mine : j =< k}) = i]]

\* The sweep is checked and build() has its samples, or has none.
Check ==
    /\ sweep = "checking"
    /\ IF Complete /\ Dealt # << >>
       THEN sweep' = "done" /\ samples' = Dealt
       ELSE sweep' = "failed" /\ UNCHANGED samples
    /\ UNCHANGED <<plan, anchors, hw, pos, end, out, lastT, stopped, decoded, faults>>

SweepNext ==
    \/ Frame \/ UntimedFrame \/ LoseFrame
    \/ EndOfFile \/ ReadError \/ DrainRefused \/ Drained
    \/ DownloadFails \/ Reopen \/ ReopenFails \/ EmitFails
    \/ Stop \/ StopSeen \/ Check

SweepSpec == SweepInit /\ [][SweepNext]_sweepVars

-----------------------------------------------------------------------------
(* Properties                                                              *)

\* The plan's times the samples are for: all but a tail.
Sampled == {x \in plan : Cardinality({y \in plan : y =< x}) =< Len(samples)}

\* Whatever was lost, retried or merged in with the anchors, the fingerprint of a
\* sweep that succeeded is the one its own plan alone asks for: the first frame
\* received at or after each of its times, all from one decoder, with only times
\* the last frame nearly reached left out.  (A frame without a time is given one.)
SamplesExact ==
    sweep = "done" /\ "untimed" \notin faults =>
        /\ \A x \in Sampled :
             LET s == samples[Cardinality({y \in plan : y =< x})]
             IN  /\ s.time \in decoded /\ s.time >= x
                 /\ \A t \in decoded : t >= x => s.time =< t
        /\ \A i, j \in 1..Len(samples) : samples[i].from = samples[j].from
        /\ \A x \in plan \ Sampled : \A t \in decoded : t < x
        /\ \A x \in plan \ Sampled : \E t \in decoded : x =< t + Slack

\* A sweep over a sound stream that no stop interrupts succeeds when its targets are
\* within the slack of the last frame and one of the plan's is within the stream.
CleanServed ==
    /\ sweep = "failed" /\ faults = {} /\ ~stopped
    /\ \E x \in plan : x < Length
    => \E x \in Targets : x > Length - 1 + Slack

\* Refuted: a sample is near the time it was asked for ("decoder errors leave missing
\* targets far beyond the slack, so it still fails").  After frames lost in the middle
\* the targets in the gap take the first frame behind it, however far that is.
GapFails ==
    sweep = "done" /\ "untimed" \notin faults =>
        \A x \in Sampled : samples[Cardinality({y \in plan : y =< x})].time =< x + Slack

\* The frames a sweep delivers are the nearest to what was asked for, and a
\* clean stream delivers them all.
SweepTrue == SamplesExact /\ CleanServed
=============================================================================
