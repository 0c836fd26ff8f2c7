-------------------------------- MODULE Monitor --------------------------------
(***************************************************************************)
(* MediaMonitor: the index of a compare root is kept in step with the disk   *)
(* by two threads and a delay queue.                                        *)
(*                                                                         *)
(* A watcher thread reads change notices from the kernel and queues paths;   *)
(* the loop thread takes one due path at a time, and removes it from the     *)
(* index, or examines the file and stores its fingerprint, or defers it, or  *)
(* reports it.  The queue holds a path once: a later notice only changes     *)
(* what is to be done with it.                                              *)
(***************************************************************************)
EXTENDS Integers, Sequences, SequencesExt

CONSTANTS MonPaths,        \* media files below the watched roots
          CompareFiles,    \* those within a compare root (notify becomes false)
          MaxRetries,      \* config_.maxRetries
          MaxChanges,      \* bound on the changes of the disk
          MaxOverflows,    \* bound on the overflows of the kernel's buffer
          MaxTimeouts,     \* bound on the 250 ms waits of the watcher that hear nothing
          MaxPauses,       \* bound on setPaused(true)
          MaxStops         \* bound on stop()

ASSUME MonitorAssumption ==
    /\ CompareFiles \subseteq MonPaths
    /\ MaxRetries \in Nat \ {0}
    /\ {MaxChanges, MaxOverflows, MaxTimeouts, MaxPauses, MaxStops} \subseteq Nat

VARIABLES
    content,     \* the version of each file on the disk, 0 when there is none
    indexed,     \* the version whose fingerprint the index holds, 0 without a row
    notices,     \* the kernel's buffer of one watched directory
    watcher,     \* the watcher thread: it has yet to open the directory, reads, or has ended
    requests,    \* earlier reads that are still out, with the buffer of the present one
    pending,     \* pending_ and pendingSet_: what is queued for a path
    hand,        \* the item the loop has taken, with what it has read of the file
    retryCounts, \* retryCounts_
    running,     \* running_
    monPaused,   \* paused_
    reported,    \* paths given up with an Error event since they were last settled
    missed,      \* history: paths of which a change was never queued
    budget       \* what remains of the bounds

monVars == <<content, indexed, notices, watcher, requests, pending, hand, retryCounts, running,
             monPaused, reported, missed, budget>>
loopVars == <<pending, hand, indexed, retryCounts, reported>>
watchVars == <<notices, watcher, requests>>

Overflow == [kind |-> "overflow"]
NoItem   == [step |-> "none"]
Item(p, step, removal, read) == [step |-> step, path |-> p, removal |-> removal, read |-> read]

\* At start a scan has just brought the index in line with the disk.
MonitorInit ==
    /\ content \in [MonPaths -> {0, 1}]
    /\ indexed = [p \in MonPaths |-> IF p \in CompareFiles THEN content[p] ELSE 0]
    /\ notices = <<>> /\ watcher = "starting" /\ requests = 0
    /\ hand = NoItem
    /\ pending = [p \in MonPaths |-> "none"]
    /\ retryCounts = [p \in MonPaths |-> 0]
    /\ running = TRUE /\ monPaused = FALSE
    /\ reported = {} /\ missed = {}
    /\ budget = [change |-> MaxChanges, overflow |-> MaxOverflows, timeout |-> MaxTimeouts,
                 pause |-> MaxPauses, stop |-> MaxStops]

Spend(what) == budget[what] > 0 /\ budget' = [budget EXCEPT ![what] = @ - 1]

-----------------------------------------------------------------------------
(* The disk and the kernel.                                                  *)

Notice(p, kind) == [kind |-> kind, path |-> p]
Noticed == {p \in MonPaths : \E i \in DOMAIN notices :
                notices[i] \in {Notice(p, "there"), Notice(p, "gone")}}

\* A file is written or deleted.  Unless the watcher reads nobody hears of it,
\* and behind an overflow nothing more is recorded: the listing that is still to
\* come finds what exists.
Change(p) ==
    \E v \in {0, content[p] + 1} \ {content[p]} :
        LET recorded == watcher = "reading" /\ notices # <<Overflow>>
        IN  /\ Spend("change")
            /\ content' = [content EXCEPT ![p] = v]
            /\ notices' = IF recorded
                          THEN Append(notices, Notice(p, IF v = 0 THEN "gone" ELSE "there"))
                          ELSE notices
            /\ missed' = IF recorded \/ (watcher = "reading" /\ v # 0)
                         THEN missed ELSE missed \cup {p}
            /\ UNCHANGED <<loopVars, watcher, requests, running, monPaused>>

\* The buffer overflows: what it held is lost.  The listing that follows finds
\* the files that exist, so what is missed is what is gone.
LoseNotices ==
    /\ notices # <<>> /\ Spend("overflow")
    /\ notices' = <<Overflow>>
    /\ missed' = missed \cup {p \in Noticed : content[p] = 0}
    /\ UNCHANGED <<content, loopVars, watcher, requests, running, monPaused>>

-----------------------------------------------------------------------------
(* The watcher.                                                              *)

\* What the notices ns are about.
AreAbout(ns) == {p \in MonPaths : \E i \in DOMAIN ns : ns[i] = Overflow \/ ns[i].path = p}

\* The directory is opened and read for the first time.
WatcherStarts ==
    /\ watcher = "starting" /\ running
    /\ watcher' = "reading"
    /\ UNCHANGED <<content, loopVars, notices, requests, running, monPaused, missed, budget>>

\* The directory cannot be opened, a read is refused or a wait fails: the thread
\* ends, nobody is told, and the rest of the monitor goes on.
WatcherEnds ==
    /\ watcher # "ended" /\ running
    /\ watcher' = "ended"
    /\ notices' = <<>> /\ requests' = 0
    /\ missed' = missed \cup AreAbout(notices)
    /\ UNCHANGED <<content, loopVars, running, monPaused, budget>>

\* Nothing is heard for 250 ms: another read is issued with the same buffer, event
\* and OVERLAPPED, and the one before stays out.
ReissueRead ==
    /\ watcher = "reading" /\ running /\ notices = <<>> /\ Spend("timeout")
    /\ requests' = requests + 1
    /\ UNCHANGED <<content, loopVars, notices, watcher, running, monPaused, missed>>

\* A mutant: a path the loop is working on is not queued again.
EnqueuePathsIdle(ps) ==
    [p \in MonPaths |-> IF p \in ps /\ content[p] # 0 /\ ~(hand # NoItem /\ hand.path = p)
                        THEN "check" ELSE pending[p]]

\* enqueuePath: only for a file that exists; a later create or modify event
\* supersedes a removal.
EnqueuePaths(ps) ==
    [p \in MonPaths |-> IF p \in ps /\ content[p] # 0 THEN "check" ELSE pending[p]]

\* enqueueRemoval.
EnqueueRemoval(p) == [pending EXCEPT ![p] = "removal"]

\* A notice is read.  An overflow makes the watcher list the directory, which ends
\* without a word at the first error: ps is as far as it comes.
ReadNotice ==
    /\ watcher = "reading" /\ running /\ notices # <<>>
    /\ notices' = Tail(notices)
    /\ LET n == Head(notices)
       IN  IF n = Overflow
           THEN \E ps \in SUBSET MonPaths :
                    /\ pending' = EnqueuePaths(ps)
                    /\ missed' = missed \cup (MonPaths \ ps)
           ELSE /\ pending' = IF n.kind = "gone" THEN EnqueueRemoval(n.path)
                              ELSE EnqueuePaths({n.path})
                /\ UNCHANGED missed
    /\ UNCHANGED <<content, watcher, requests, indexed, hand, retryCounts, running, monPaused,
                   reported, budget>>

\* A read that is still out is answered where nobody waits for it: its event is
\* reset by the next turn, or the buffer is written again before it is looked at.
LoseRead ==
    /\ watcher = "reading" /\ running /\ notices # <<>> /\ requests > 0
    /\ requests' = requests - 1
    /\ notices' = Tail(notices)
    /\ missed' = missed \cup AreAbout(<<Head(notices)>>)
    /\ UNCHANGED <<content, loopVars, watcher, running, monPaused, budget>>

\* Or the buffer is written while the watcher looks at it: what it reads is put
\* together from two notices.
TearRead ==
    /\ watcher = "reading" /\ running /\ Len(notices) > 1 /\ requests > 0
    /\ requests' = requests - 1
    /\ notices' = Tail(Tail(notices))
    /\ LET both == SubSeq(notices, 1, 2)
       IN  /\ \E p \in AreAbout(both) :
                 pending' \in {EnqueuePaths({p}), EnqueueRemoval(p)}
           /\ missed' = missed \cup AreAbout(both)
    /\ UNCHANGED <<content, watcher, indexed, hand, retryCounts, running, monPaused, reported,
                   budget>>

-----------------------------------------------------------------------------
(* The loop.  An item is due at some time; order and delay are left out.     *)

TakeItem(p) ==
    /\ running /\ hand = NoItem /\ pending[p] # "none"
    /\ hand' = Item(p, "taken", pending[p] = "removal", 0)
    /\ pending' = [pending EXCEPT ![p] = "none"]
    /\ UNCHANGED <<content, indexed, watchVars, retryCounts, running, monPaused, reported,
                   missed, budget>>

\* While paused the item goes back, its removal flag joined to what has been
\* queued for the path meanwhile: a removal may swallow a later event.
PutBack ==
    /\ hand.step = "taken" /\ monPaused
    /\ pending' = [pending EXCEPT ![hand.path] =
                        IF @ = "removal" \/ hand.removal THEN "removal" ELSE "check"]
    /\ missed' = IF hand.removal /\ pending[hand.path] = "check"
                 THEN missed \cup {hand.path} ELSE missed
    /\ hand' = NoItem
    /\ UNCHANGED <<content, indexed, watchVars, retryCounts, running, monPaused, reported,
                   budget>>

\* The path is done with: its count of retries is dropped.
Settle(p) ==
    /\ hand' = NoItem
    /\ retryCounts' = [retryCounts EXCEPT ![p] = 0]
    /\ reported' = reported \ {p}

RemovePath ==
    /\ hand.step = "taken" /\ ~monPaused /\ hand.removal
    /\ indexed' = [indexed EXCEPT ![hand.path] = 0]
    /\ Settle(hand.path)
    /\ UNCHANGED <<content, watchVars, pending, running, monPaused, missed, budget>>

GiveUp(p) ==
    /\ hand' = NoItem
    /\ reported' = reported \cup {p}

\* A mutant: An attempt is not counted.
DeferForEver ==
    /\ hand.step = "taken" /\ ~monPaused /\ ~hand.removal
    /\ pending' = [pending EXCEPT ![hand.path] = "check"]
    /\ hand' = NoItem
    /\ UNCHANGED <<content, indexed, watchVars, retryCounts, running, monPaused, reported,
                   missed, budget>>

\* The file is not settled, not there, or the machine is busy: it goes back
\* with a removal flag that is cleared, until the limit is reached.
Defer ==
    LET p == hand.path
    IN  /\ hand.step = "taken" /\ ~monPaused /\ ~hand.removal
        /\ IF retryCounts[p] + 1 > MaxRetries
           THEN /\ GiveUp(p)
                /\ retryCounts' = [retryCounts EXCEPT ![p] = 0]
                /\ UNCHANGED pending
           ELSE /\ pending' = [pending EXCEPT ![p] = "check"]
                /\ retryCounts' = [retryCounts EXCEPT ![p] = @ + 1]
                /\ hand' = NoItem
                /\ UNCHANGED reported
        /\ UNCHANGED <<content, indexed, watchVars, running, monPaused, missed, budget>>

\* A file that has been quiet for a while is decoded; decoding takes long.
Decode ==
    /\ hand.step = "taken" /\ ~monPaused /\ ~hand.removal
    /\ content[hand.path] # 0
    /\ hand' = [hand EXCEPT !.step = "decoded", !.read = content[hand.path]]
    /\ UNCHANGED <<content, indexed, watchVars, pending, retryCounts, running, monPaused,
                   reported, missed, budget>>

DecodeFails ==
    /\ hand.step = "taken" /\ ~monPaused /\ ~hand.removal
    /\ content[hand.path] # 0
    /\ GiveUp(hand.path)
    /\ UNCHANGED <<content, indexed, watchVars, pending, retryCounts, running, monPaused,
                   missed, budget>>

\* A file within a compare root is stored, any other is only compared.
UpsertOrCompare ==
    /\ hand.step = "decoded"
    /\ indexed' = IF hand.path \in CompareFiles
                  THEN [indexed EXCEPT ![hand.path] = hand.read] ELSE indexed
    /\ Settle(hand.path)
    /\ UNCHANGED <<content, watchVars, pending, running, monPaused, missed, budget>>

-----------------------------------------------------------------------------
(* setPaused, stop and start.                                                *)

SetPaused ==
    /\ IF monPaused THEN UNCHANGED budget ELSE Spend("pause")
    /\ monPaused' = ~monPaused
    /\ UNCHANGED <<content, loopVars, watchVars, running, missed>>

\* The watchers end and what is on its way is dropped.
StopMonitor ==
    /\ running /\ Spend("stop")
    /\ running' = FALSE /\ watcher' = "ended" /\ notices' = <<>> /\ requests' = 0
    /\ missed' = missed \cup AreAbout(notices)
                   \cup {p \in MonPaths : pending[p] # "none"}
                   \cup (IF hand.step = "taken" THEN {hand.path} ELSE {})
    /\ UNCHANGED <<content, loopVars, monPaused>>

\* The loop's test right after it has taken an item.
LeaveItem ==
    /\ ~running /\ hand.step = "taken"
    /\ hand' = NoItem
    /\ UNCHANGED <<content, indexed, watchVars, pending, retryCounts, running, monPaused,
                   reported, missed, budget>>

StartMonitor ==
    /\ ~running /\ hand = NoItem
    /\ running' = TRUE /\ monPaused' = FALSE /\ watcher' = "starting"
    /\ pending' = [p \in MonPaths |-> "none"]
    /\ retryCounts' = [p \in MonPaths |-> 0]
    /\ UNCHANGED <<content, indexed, notices, requests, hand, reported, missed, budget>>

ItemStep == PutBack \/ RemovePath \/ Defer \/ Decode \/ DecodeFails \/ UpsertOrCompare
            \/ LeaveItem
Loop == (\E p \in MonPaths : TakeItem(p)) \/ ItemStep

MonitorNext ==
    \/ (\E p \in MonPaths : Change(p)) \/ LoseNotices
    \/ WatcherStarts \/ WatcherEnds \/ ReissueRead \/ ReadNotice \/ LoseRead \/ TearRead
    \/ Loop \/ SetPaused \/ StopMonitor \/ StartMonitor

\* The watcher and the loop run; the loop finishes with its item, one way or
\* another, and the queue's order by due time gives each path its turn.
MonitorFairness ==
    /\ WF_monVars(ReadNotice)
    /\ WF_monVars(ItemStep)
    /\ \A p \in MonPaths : SF_monVars(TakeItem(p))

MonitorSpec == MonitorInit /\ [][MonitorNext]_monVars /\ MonitorFairness

-----------------------------------------------------------------------------

MonitorTypeOK ==
    /\ content \in [MonPaths -> 0 .. 1 + MaxChanges]
    /\ indexed \in [MonPaths -> 0 .. 1 + MaxChanges]
    /\ watcher \in {"starting", "reading", "ended"} /\ requests \in 0 .. MaxTimeouts
    /\ pending \in [MonPaths -> {"none", "check", "removal"}]
    /\ hand = NoItem \/ hand.path \in MonPaths
    /\ retryCounts \in [MonPaths -> 0 .. MaxRetries]
    /\ running \in BOOLEAN /\ monPaused \in BOOLEAN
    /\ reported \subseteq MonPaths /\ missed \subseteq MonPaths

\* Nothing that concerns p is on its way.
Quiet(p) == /\ notices = <<>> /\ pending[p] = "none"
            /\ ~(hand # NoItem /\ hand.path = p)

\* Once the monitor has nothing left to do for a file, the index holds what is
\* on the disk, whatever order changes, retries and a long decode came in;
\* but for files reported as given up and changes that were never queued or
\* were swallowed while paused (see RemovalSuperseded).
IndexFollowsDisk ==
    \A p \in CompareFiles \ (missed \cup reported) :
        running /\ Quiet(p) => indexed[p] = content[p]

\* The queue does not keep a path for ever: retries run out, however often
\* the file is not ready.
EveryItemSettles ==
    \A p \in MonPaths : pending[p] # "none" /\ running /\ ~monPaused
                        ~> Quiet(p) \/ ~running \/ monPaused

\* "An externally deleted file can no longer linger as a phantom member through
\* any path (rescan / Load / scan start / monitor)": a file that is gone, with
\* nothing about it on its way, is not in the index.
NoPhantom ==
    \A p \in CompareFiles : running /\ Quiet(p) /\ content[p] = 0 => indexed[p] = 0

\* "A later create/modify event supersedes a stale removal": no removal is
\* queued for a file that exists while nothing more is to be heard of it.
RemovalSuperseded ==
    \A p \in MonPaths : notices = <<>> /\ content[p] # 0 => pending[p] # "removal"
================================================================================
