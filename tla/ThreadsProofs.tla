---------------------------- MODULE ThreadsProofs ----------------------------
(***************************************************************************)
(* Proofs about the threads that work beside the scan: the monitor of a      *)
(* folder keeps the index in step with the disk (Monitor), the GPU is not    *)
(* switched in the band between the edges of a mode, nor before the mode's   *)
(* hold is over (Scheduler), the detector of stalls cancels no scan          *)
(* (StallWatchdog), and all of them, with the walk, keep their types.        *)
(***************************************************************************)
EXTENDS MCScanThreads, SequenceTheorems, TLAPS

-----------------------------------------------------------------------------
(* ScanWalk: what one walk guarantees for every number of files, every       *)
(* capacity of the queue and every batch size.                               *)

\* The walker's counters never overtake one another.
Counters == pushed <= offered /\ offered <= enumerated /\ enumerated <= reach /\ reach <= NFiles

\* A file that was offered in vain was refused because the walk was being
\* stopped, and the walk has been told so.
DropsAreFinal == pushed < offered => cancel \/ walkAbort

\* walkDone is set between the walker's last two steps.
DoneIsLate == walkDone <=> wpc \in {"close", "ended"}

\* A walker that ran to the end, unhindered, offered every file.
EndMeansAll ==
    wpc \in {"leave", "close", "ended"} /\ ~WalkStopped /\ ~walkError =>
        offered = enumerated /\ enumerated = reach

\* The consumer stops the walk only once its own loop is over, ...
AbortIsLate == walkAbort => cpc \in {"close", "join", "forget", "ended"}

\* ... and closes the queue before it joins.
ShutdownIsLate == shutdown => wpc = "ended" \/ cpc \in {"join", "forget", "ended"}

\* The walk is called complete on the way out of the loop.
CompleteIsLate == walkCompleted => cpc \in {"leave", "close", "join", "forget", "ended"}

IInv ==
    /\ WalkTypeOK
    /\ Counters
    /\ InOrder
    /\ DropsOnlyWhenStopped /\ DropsAreFinal
    /\ DoneIsLate /\ EndMeansAll
    /\ AbortIsLate /\ ShutdownIsLate /\ CompleteIsLate
    /\ CompleteMeansAll

\* A walk begins with nothing seen, queued or dropped.
LEMMA InitInv == WalkInit => IInv
<1> SUFFICES ASSUME WalkInit PROVE IInv
  OBVIOUS
<1> USE WalkAssumption DEF WalkInit, WQ!Init
<1>1. queue = <<>> /\ queue \in Seq(Files) /\ Len(queue) = 0
  <2>1. queue = <<>>
    OBVIOUS
  <2>2. <<>> \in Seq(Files) /\ Len(<<>>) = 0
    BY EmptySeq
  <2> QED
    BY <2>1, <2>2
<1>2. WalkTypeOK
  <2>1. {shutdown, cancel, pause, walkAbort, walkError, walkDone} \subseteq BOOLEAN
    OBVIOUS
  <2>2. {failed, cancelled, threw, walkCompleted} \subseteq BOOLEAN
    OBVIOUS
  <2>3. wpc \in WalkerPC /\ cpc \in ConsumerPC
    BY DEF WalkerPC, ConsumerPC
  <2>4. {reach, enumerated, offered, pushed, consumed} \subseteq 0..NFiles /\ rows \subseteq Files
    OBVIOUS
  <2> QED
    BY <1>1, <2>1, <2>2, <2>3, <2>4 DEF WalkTypeOK
<1>3. InOrder
  BY <1>1 DEF InOrder
<1>4. QED
  BY <1>2, <1>3 DEF IInv, Counters, DropsOnlyWhenStopped, DropsAreFinal, DoneIsLate, EndMeansAll,
     AbortIsLate, ShutdownIsLate, CompleteIsLate, CompleteMeansAll

\* A push leaves the files in order: the next one due goes to the end.
LEMMA PushKeepsOrder == IInv /\ OfferAccepted => WalkTypeOK' /\ InOrder'
<1> SUFFICES ASSUME IInv, OfferAccepted PROVE WalkTypeOK' /\ InOrder'
  OBVIOUS
<1> USE DEF OfferAccepted, WQ!Push, WQ!Full, WQ!Refused
<1>1. queue \in Seq(Files) /\ offered + 1 \in Files
  BY WalkAssumption DEF IInv, WalkTypeOK, Counters, Files
<1>2. /\ queue' \in Seq(Files) /\ Len(queue') = Len(queue) + 1
      /\ \A i \in 1..Len(queue) : queue'[i] = queue[i]
      /\ queue'[Len(queue) + 1] = offered + 1
  BY <1>1, AppendProperties
<1>3. WalkTypeOK'
  BY <1>2, WalkAssumption DEF IInv, WalkTypeOK, Counters, consumerSide
<1>4. pushed = offered
  BY WalkAssumption DEF IInv, WalkTypeOK, Counters, DropsOnlyWhenStopped
<1>5. InOrder'
  <2>1. consumed + Len(queue) = pushed /\ \A i \in 1..Len(queue) : queue[i] = consumed + i
    BY DEF IInv, InOrder
  <2>2. consumed \in Nat /\ pushed \in Nat /\ Len(queue) \in Nat
    BY <1>1, WalkAssumption DEF IInv, WalkTypeOK
  <2>3. consumed' + Len(queue') = pushed'
    <3>1. consumed' = consumed /\ pushed' = pushed + 1
      BY DEF consumerSide
    <3> HIDE DEF OfferAccepted
    <3> QED
      BY <3>1, <1>2, <2>1, <2>2
  <2>4. ASSUME NEW i \in 1..Len(queue') PROVE queue'[i] = consumed' + i
    BY <1>2, <1>4, <2>1, <2>2 DEF consumerSide
  <2> QED
    BY <2>3, <2>4 DEF InOrder
<1> QED
  BY <1>3, <1>5

\* So does a pop: the first file, the one after the last consumed, leaves.
LEMMA TakeKeepsOrder == IInv /\ Take => WalkTypeOK' /\ InOrder'
<1> SUFFICES ASSUME IInv, Take PROVE WalkTypeOK' /\ InOrder'
  OBVIOUS
<1> USE DEF Take, WQ!Pop, GoTo
<1>1. queue \in Seq(Files) /\ queue # <<>>
  BY DEF IInv, WalkTypeOK
<1>2. /\ queue' \in Seq(Files) /\ Len(queue) \in Nat \ {0} /\ Len(queue') = Len(queue) - 1
      /\ \A i \in 1..Len(queue') : queue'[i] = queue[i + 1]
  BY <1>1, EmptySeq, LenProperties, HeadTailProperties
<1>3. consumed + Len(queue) = pushed /\ \A i \in 1..Len(queue) : queue[i] = consumed + i
  BY DEF IInv, InOrder
<1>4. consumed \in Nat /\ pushed \in Nat /\ pushed <= NFiles
  BY WalkAssumption DEF IInv, WalkTypeOK, Counters
<1>5. consumed' \in 0..NFiles
  BY <1>2, <1>3, <1>4, WalkAssumption
<1>6. WalkTypeOK'
  BY <1>2, <1>5, WalkAssumption DEF IInv, WalkTypeOK, ConsumerPC, walkerSide
<1>7. InOrder'
  BY <1>2, <1>3, <1>4 DEF InOrder, walkerSide
<1> QED
  BY <1>6, <1>7

\* Each step of the walker and of the consumer keeps the invariant.
LEMMA StepInv == IInv /\ [WalkNext]_walkVars => IInv'
<1> SUFFICES ASSUME IInv, [WalkNext]_walkVars PROVE IInv'
  OBVIOUS
<1> USE WalkAssumption
    DEF IInv, WalkTypeOK, Counters, InOrder, DropsOnlyWhenStopped, DropsAreFinal, DoneIsLate,
        EndMeansAll, AbortIsLate, ShutdownIsLate, CompleteIsLate, CompleteMeansAll, WalkStopped,
        Files, WalkerPC, ConsumerPC, walkVars, queueSide, walkerSide, consumerSide, flags
<1>1. CASE Enumerate
  <2> USE <1>1 DEF Enumerate, LoopOver
  <2>1. enumerated' = enumerated + 1 /\ enumerated' <= reach /\ wpc' \in {"offer", "enum"}
    OBVIOUS
  <2>2. WalkTypeOK'
    BY <2>1
  <2>3. Counters' /\ DropsOnlyWhenStopped' /\ DropsAreFinal' /\ InOrder'
    BY <2>1
  <2> QED
    BY <2>1, <2>2, <2>3
<1>2. CASE StopEnumerating
  BY <1>2 DEF StopEnumerating, LoopOver
<1>3. CASE EnumError
  BY <1>3 DEF EnumError
<1>4. CASE OfferAccepted
  <2>1. WalkTypeOK' /\ InOrder'
    BY <1>4, PushKeepsOrder
  <2>2. /\ offered' = offered + 1 /\ pushed' = pushed + 1 /\ offered < enumerated
        /\ ~cancel /\ ~shutdown /\ wpc = "offer" /\ cancel' = cancel /\ shutdown' = shutdown
        /\ UNCHANGED <<pause, wpc, enumerated, reach, walkError, walkDone, walkAbort, consumerSide>>
    BY <1>4 DEF OfferAccepted, WQ!Push, WQ!Full, WQ!Refused
  <2>3. Counters' /\ DropsOnlyWhenStopped' /\ DropsAreFinal'
    BY <2>1, <2>2
  <2>4. DoneIsLate' /\ EndMeansAll' /\ AbortIsLate' /\ ShutdownIsLate' /\ CompleteIsLate'
    BY <2>2
  <2>5. CompleteMeansAll'
    BY <2>2
  <2> QED
    BY <2>1, <2>3, <2>4, <2>5
<1>5. CASE OfferRefused
  BY <1>5 DEF OfferRefused, WQ!Refused
<1>6. CASE Flushed
  BY <1>6 DEF Flushed, LoopOver
<1>7. CASE WalkerThrows
  BY <1>7 DEF WalkerThrows
<1>8. CASE WalkerDone
  BY <1>8 DEF WalkerDone
<1>9. CASE WalkerCloses
  BY <1>9 DEF WalkerCloses, WQ!Shutdown
<1>10. CASE PollStop
  BY <1>10 DEF PollStop, GoTo
<1>11. CASE Take
  BY <1>11, TakeKeepsOrder DEF Take, WQ!Pop, GoTo
<1>12. CASE TakeNothing
  BY <1>12 DEF TakeNothing, GoTo
<1>13. CASE ProcessFile
  BY <1>13 DEF ProcessFile, GoTo
<1>14. CASE StopTest
  BY <1>14 DEF StopTest, GoTo
<1>15. CASE DoneTest
  BY <1>15 DEF DoneTest, WalkOver, GoTo
<1>16. CASE Leave
  BY <1>16 DEF Leave, GoTo
<1>17. CASE Close
  BY <1>17 DEF Close, WQ!Shutdown, GoTo
<1>18. CASE Join
  BY <1>18 DEF Join, GoTo
<1>19. CASE Forget
  BY <1>19 DEF Forget, GoTo, Seen
<1>20. CASE RequestStop
  BY <1>20 DEF RequestStop, WQ!Cancel
<1>21. CASE TogglePause
  BY <1>21 DEF TogglePause
<1>22. CASE UNCHANGED walkVars
  BY <1>22
<1>. QED
  BY <1>1, <1>2, <1>3, <1>4, <1>5, <1>6, <1>7, <1>8, <1>9, <1>10, <1>11, <1>12,
     <1>13, <1>14, <1>15, <1>16, <1>17, <1>18, <1>19, <1>20, <1>21, <1>22
  DEF WalkNext, Walker, WalkerRuns, Consumer, Over

\* So it holds at every step.
LEMMA Invariant == WalkSpec => []IInv
BY InitInv, StepInv, PTL DEF WalkSpec

-----------------------------------------------------------------------------

\* The variables keep their types: in particular no counter passes NFiles.
THEOREM TypeCorrect == WalkSpec => []WalkTypeOK
<1>1. IInv => WalkTypeOK
  BY DEF IInv
<1> QED
  BY <1>1, Invariant, PTL

\* Producer and consumer agree about what is between them, however their steps
\* interleave: no file is lost, doubled or overtaken in the queue.
THEOREM FilesInOrder == WalkSpec => []InOrder
<1>1. IInv => InOrder
  BY DEF IInv
<1> QED
  BY <1>1, Invariant, PTL

\* Only a stop makes the queue refuse a file.
THEOREM DropsMeanStop == WalkSpec => []DropsOnlyWhenStopped
<1>1. IInv => DropsOnlyWhenStopped
  BY DEF IInv
<1> QED
  BY <1>1, Invariant, PTL

\* The consumer's test for the end of the walk is not too early.
THEOREM CompletionIsSound == WalkSpec => []CompleteMeansAll
<1>1. IInv => CompleteMeansAll
  BY DEF IInv
<1> QED
  BY <1>1, Invariant, PTL

\* The hand-over as a whole: what the walker enumerates the consumer gets, in
\* order and to the last file, or a Stop has ended the scan.
THEOREM NothingIsLost == WalkSpec => []NoFileLost
BY FilesInOrder, DropsMeanStop, CompletionIsSound, PTL DEF NoFileLost

\* The rows that survive: without a Stop, an I/O error or a failed walker, the
\* deletion detection of a scan removes no file that exists.
THEOREM NothingForgotten ==
    WalkSpec => [][Forget /\ ~cancel /\ ~walkError /\ reach = NFiles => rows' = rows]_walkVars
<1> DEFINE A == Forget /\ ~cancel /\ ~walkError /\ reach = NFiles => rows' = rows
<1>1. IInv /\ [WalkNext]_walkVars => [A]_walkVars
  BY WalkAssumption DEF IInv, WalkTypeOK, CompleteMeansAll, Forget, Seen, Files
<1> QED
  BY <1>1, Invariant, PTL DEF WalkSpec

-----------------------------------------------------------------------------
(* The walk implements the queue it is built on.                             *)

\* Every step of the two threads leaves the queue alone or is one of its
\* operations, with the file that was due.
THEOREM QueueImplemented == WalkSpec => QueueSpec
<1>1. WalkInit => WQ!Init
  BY DEF WalkInit
<1>2. IInv /\ [WalkNext]_walkVars => [WQ!Next]_(WQ!queueVars)
  <2> SUFFICES ASSUME IInv, [WalkNext]_walkVars PROVE [WQ!Next]_(WQ!queueVars)
    OBVIOUS
  <2> USE DEF WQ!queueVars, WQ!Next
  <2>1. CASE OfferAccepted
    <3>1. offered + 1 \in Files
      BY <2>1, WalkAssumption DEF OfferAccepted, IInv, WalkTypeOK, Counters, Files
    <3> QED
      BY <2>1, <3>1 DEF OfferAccepted
  <2>2. CASE WalkerCloses \/ Close
    BY <2>2 DEF WalkerCloses, Close
  <2>3. CASE Take
    BY <2>3 DEF Take
  <2>4. CASE RequestStop
    BY <2>4 DEF RequestStop
  <2>5. CASE \/ Enumerate \/ StopEnumerating \/ EnumError \/ OfferRefused \/ Flushed
             \/ WalkerThrows \/ WalkerDone
    BY <2>5 DEF Enumerate, StopEnumerating, EnumError, OfferRefused, Flushed, WalkerThrows,
                WalkerDone, queueSide, flags
  <2>6. CASE \/ PollStop \/ TakeNothing \/ ProcessFile \/ StopTest \/ DoneTest \/ Leave \/ Join \/ Forget
             \/ TogglePause
    BY <2>6 DEF PollStop, TakeNothing, ProcessFile, StopTest, DoneTest, Leave, Join, Forget, TogglePause,
                queueSide, flags
  <2>7. CASE UNCHANGED walkVars
    BY <2>7 DEF walkVars, queueSide, flags
  <2> QED
    BY <2>1, <2>2, <2>3, <2>4, <2>5, <2>6, <2>7 DEF WalkNext, Walker, WalkerRuns, Consumer, Over
<1> QED
  BY <1>1, <1>2, Invariant, PTL DEF WalkSpec, QueueSpec, WQ!Spec

\* The queue itself: no push makes it longer than its capacity.
THEOREM QueueBounded == WalkSpec => []WQ!Bounded
<1>1. WalkInit => WQ!Bounded
  <2> SUFFICES ASSUME WalkInit PROVE WQ!Bounded
    OBVIOUS
  <2>1. queue = <<>> /\ Len(<<>>) = 0
    BY EmptySeq DEF WalkInit, WQ!Init
  <2> QED
    BY <2>1, WalkAssumption DEF WQ!Bounded
<1>2. WalkTypeOK /\ WQ!Bounded /\ [WQ!Next]_(WQ!queueVars) => WQ!Bounded'
  <2> SUFFICES ASSUME WalkTypeOK, WQ!Bounded, [WQ!Next]_(WQ!queueVars) PROVE WQ!Bounded'
    OBVIOUS
  <2> USE WalkAssumption DEF WQ!Bounded, WalkTypeOK
  <2>1. ASSUME NEW x \in Files, WQ!Push(x) PROVE WQ!Bounded'
    <3>1. Len(queue') = Len(queue) + 1 /\ Len(queue) \in Nat
      BY <2>1, AppendProperties, LenProperties DEF WQ!Push
    <3> QED
      BY <2>1, <3>1 DEF WQ!Push, WQ!Full
  <2>2. CASE WQ!Pop
    <3>1. Len(queue') = Len(queue) - 1 /\ Len(queue) \in Nat
      BY <2>2, HeadTailProperties, LenProperties DEF WQ!Pop
    <3> QED
      BY <3>1
  <2>3. CASE WQ!Shutdown \/ WQ!Cancel \/ UNCHANGED WQ!queueVars
    BY <2>3 DEF WQ!Shutdown, WQ!Cancel, WQ!queueVars
  <2> QED
    BY <2>1, <2>2, <2>3 DEF WQ!Next
<1> QED
  BY <1>1, <1>2, TypeCorrect, QueueImplemented, PTL DEF WalkSpec, QueueSpec, WQ!Spec

-----------------------------------------------------------------------------
(* Monitor: the index follows the disk.                                        *)

Gone(p)  == Notice(p, "gone")
There(p) == {Overflow, Notice(p, "there")}
Notices  == {Overflow} \cup {Notice(p, kind) : p \in MonPaths, kind \in {"there", "gone"}}

\* A queue of notices says that p is gone, or makes the watcher look whether it is there; and it
\* lets the watcher look after the last word that it is gone.
HasGone(q, p)   == \E i \in DOMAIN q : q[i] = Gone(p)
HasThere(q, p)  == \E i \in DOMAIN q : q[i] \in There(p)
Recovered(q, p) == \A i \in DOMAIN q : q[i] = Gone(p) => \E k \in DOMAIN q : i < k /\ q[k] \in There(p)

\* The loop works on p.
On(p) == hand # NoItem /\ hand.path = p

\* A file that exists will be examined, is being examined as it is, or is in the index or given up.
ReadyThere(p) ==
    \/ pending[p] = "check"
    \/ /\ pending[p] = "none" /\ On(p)
       /\ \/ hand.step = "taken" /\ ~hand.removal
          \/ hand.step = "decoded" /\ hand.read = content[p]
    \/ pending[p] = "none" /\ ~On(p) /\ (indexed[p] = content[p] \/ p \in reported)

\* A file that does not is queued or taken, be it to be given up, or is not in the index.
ReadyGone(p) ==
    \/ pending[p] # "none"
    \/ On(p) /\ hand.step = "taken"
    \/ ~On(p) /\ (indexed[p] = content[p] \/ p \in reported)

\* What is on its way brings the index in line.
Follows(p) ==
    IF content[p] # 0 THEN Recovered(notices, p) /\ (HasThere(notices, p) \/ ReadyThere(p))
    ELSE HasGone(notices, p) \/ ReadyGone(p)

MonitorTypes ==
    /\ content \in [MonPaths -> Nat] /\ indexed \in [MonPaths -> Nat]
    /\ notices \in Seq(Notices)
    /\ pending \in [MonPaths -> {"none", "check", "removal"}]
    /\ hand \in {NoItem} \cup [step : {"taken", "decoded"}, path : MonPaths, removal : BOOLEAN, read : Nat]
    /\ running \in BOOLEAN

\* A monitor that was stopped hears nothing, and what was on its way is missed.
StoppedIsDeaf ==
    ~running => /\ notices = <<>> /\ watcher = "ended"
                /\ \A p \in MonPaths : pending[p] # "none" => p \in missed
                /\ hand.step = "taken" => hand.path \in missed

FollowInv == MonitorTypes /\ StoppedIsDeaf /\ \A p \in CompareFiles \ missed : Follows(p)

\* An overflow and the notices differ.
LEMMA NoticesDiffer ==
    ASSUME NEW p, NEW r, NEW k, NEW l
    PROVE  /\ Notice(p, k) # Overflow
           /\ Notice(p, k) = Notice(r, l) <=> p = r /\ k = l
<1>1. Notice(p, k).path = p /\ Notice(p, k).kind = k /\ Notice(r, l).path = r /\ Notice(r, l).kind = l
  BY DEF Notice
<1>2. DOMAIN Notice(p, k) = {"kind", "path"} /\ DOMAIN Overflow = {"kind"}
  BY DEF Notice, Overflow
<1> QED BY <1>1, <1>2

\* A notice that is queued is behind the others.
LEMMA NoticeQueued ==
    ASSUME NEW p, NEW q \in Seq(Notices), NEW n \in Notices
    PROVE  /\ HasGone(Append(q, n), p) <=> HasGone(q, p) \/ n = Gone(p)
           /\ HasThere(Append(q, n), p) <=> HasThere(q, p) \/ n \in There(p)
           /\ Recovered(q, p) /\ n # Gone(p) => Recovered(Append(q, n), p)
           /\ n \in There(p) => Recovered(Append(q, n), p)
<1> DEFINE u == Append(q, n)
           m == Len(q)
<1>1. /\ m \in Nat /\ DOMAIN q = 1..m /\ DOMAIN u = 1..(m + 1)
      /\ \A i \in 1..m : u[i] = q[i]
      /\ u[m + 1] = n
  BY AppendProperties, LenProperties
<1>2. n \in There(p) => n # Gone(p)
  BY NoticesDiffer DEF There, Gone
<1> HIDE DEF u, m
<1>3. HasGone(u, p) <=> HasGone(q, p) \/ n = Gone(p)
  BY <1>1 DEF HasGone
<1>4. HasThere(u, p) <=> HasThere(q, p) \/ n \in There(p)
  BY <1>1 DEF HasThere
<1>5. ASSUME Recovered(q, p), n # Gone(p) PROVE Recovered(u, p)
  <2> SUFFICES ASSUME NEW i \in DOMAIN u, u[i] = Gone(p) PROVE \E k \in DOMAIN u : i < k /\ u[k] \in There(p)
    BY DEF Recovered
  <2>1. i \in 1..m
    BY <1>1, <1>5
  <2>2. PICK k \in DOMAIN q : i < k /\ q[k] \in There(p)
    BY <1>1, <1>5, <2>1 DEF Recovered
  <2>3. k \in DOMAIN u /\ u[k] = q[k]
    BY <1>1, <2>2
  <2> QED BY <2>2, <2>3
<1>6. ASSUME n \in There(p) PROVE Recovered(u, p)
  <2> SUFFICES ASSUME NEW i \in DOMAIN u, u[i] = Gone(p) PROVE \E k \in DOMAIN u : i < k /\ u[k] \in There(p)
    BY DEF Recovered
  <2>1. i \in 1..m
    BY <1>1, <1>2, <1>6
  <2>2. m + 1 \in DOMAIN u /\ i < m + 1 /\ u[m + 1] \in There(p)
    BY <1>1, <1>6, <2>1
  <2> QED BY <2>2
<1> QED BY <1>3, <1>4, <1>5, <1>6 DEF u

\* A notice is read at the head.
LEMMA NoticeRead ==
    ASSUME NEW p, NEW q \in Seq(Notices), q # <<>>
    PROVE  /\ Head(q) \in Notices /\ Tail(q) \in Seq(Notices)
           /\ HasGone(q, p) <=> HasGone(Tail(q), p) \/ Head(q) = Gone(p)
           /\ HasThere(q, p) <=> HasThere(Tail(q), p) \/ Head(q) \in There(p)
           /\ Recovered(q, p) => Recovered(Tail(q), p)
           /\ Recovered(q, p) /\ Head(q) = Gone(p) => HasThere(Tail(q), p)
<1> DEFINE u == Tail(q)
           m == Len(q)
<1>1. /\ m \in Nat \ {0} /\ DOMAIN q = 1..m /\ DOMAIN u = 1..(m - 1)
      /\ \A i \in 1..(m - 1) : u[i] = q[i + 1]
      /\ Head(q) = q[1] /\ Head(q) \in Notices /\ u \in Seq(Notices)
  BY HeadTailProperties, LenProperties, EmptySeq
<1> HIDE DEF u, m
<1>2. \A i \in DOMAIN q : i = 1 \/ (i - 1 \in DOMAIN u /\ u[i - 1] = q[i])
  BY <1>1
<1>3. \A i \in DOMAIN u : i + 1 \in DOMAIN q /\ q[i + 1] = u[i]
  BY <1>1
<1>4. 1 \in DOMAIN q /\ q[1] = Head(q)
  BY <1>1
<1>5. HasGone(q, p) <=> HasGone(u, p) \/ Head(q) = Gone(p)
  BY <1>2, <1>3, <1>4 DEF HasGone
<1>6. HasThere(q, p) <=> HasThere(u, p) \/ Head(q) \in There(p)
  BY <1>2, <1>3, <1>4 DEF HasThere
<1>7. ASSUME Recovered(q, p) PROVE Recovered(u, p)
  <2> SUFFICES ASSUME NEW i \in DOMAIN u, u[i] = Gone(p) PROVE \E k \in DOMAIN u : i < k /\ u[k] \in There(p)
    BY DEF Recovered
  <2>1. PICK k \in DOMAIN q : i + 1 < k /\ q[k] \in There(p)
    BY <1>3, <1>7 DEF Recovered
  <2>2. k - 1 \in DOMAIN u /\ i < k - 1 /\ u[k - 1] \in There(p)
    BY <1>1, <1>2, <2>1
  <2> QED BY <2>2
<1>8. ASSUME Recovered(q, p), Head(q) = Gone(p) PROVE HasThere(u, p)
  <2>1. PICK k \in DOMAIN q : 1 < k /\ q[k] \in There(p)
    BY <1>4, <1>8 DEF Recovered
  <2>2. k - 1 \in DOMAIN u /\ u[k - 1] \in There(p)
    BY <1>1, <1>2, <2>1
  <2> QED BY <2>2 DEF HasThere
<1> QED BY <1>1, <1>5, <1>6, <1>7, <1>8 DEF u

\* An empty queue says nothing, and an overflow alone lets the watcher look everywhere.
LEMMA QueuesOfNone ==
    ASSUME NEW p
    PROVE  /\ ~HasGone(<<>>, p) /\ ~HasThere(<<>>, p) /\ Recovered(<<>>, p)
           /\ <<Overflow>> \in Seq(Notices) /\ HasThere(<<Overflow>>, p) /\ Recovered(<<Overflow>>, p)
<1>1. DOMAIN <<>> = {} /\ DOMAIN <<Overflow>> = {1} /\ <<Overflow>>[1] = Overflow
  OBVIOUS
<1>2. Overflow # Gone(p) /\ Overflow \in Notices /\ Overflow \in There(p)
  BY NoticesDiffer DEF Gone, Notices, There
<1> QED BY <1>1, <1>2 DEF HasGone, HasThere, Recovered

\* The monitor starts with the index in line.
LEMMA FollowBegins == MonitorInit => FollowInv
<1> SUFFICES ASSUME MonitorInit PROVE FollowInv
  OBVIOUS
<1>1. MonitorTypes
  BY DEF MonitorInit, MonitorTypes
<1>2. ASSUME NEW p \in CompareFiles PROVE Follows(p)
  <2>1. p \in MonPaths /\ indexed[p] = content[p] /\ pending[p] = "none" /\ ~On(p) /\ notices = <<>>
    BY <1>2, MonitorAssumption DEF MonitorInit, On
  <2>2. ReadyThere(p) /\ ReadyGone(p)
    BY <2>1 DEF ReadyThere, ReadyGone
  <2> QED BY <2>1, <2>2, QueuesOfNone DEF Follows
<1> QED BY <1>1, <1>2 DEF FollowInv, StoppedIsDeaf, MonitorInit

\* A file that changes is noticed while the monitor runs, and missed otherwise.
LEMMA ChangeFollowed == ASSUME FollowInv, NEW file \in MonPaths, Change(file) PROVE FollowInv'
<1> DEFINE recorded == watcher = "reading" /\ notices # <<Overflow>>
<1>1. MonitorTypes
  BY DEF FollowInv
<1>2. PICK v \in {0, content[file] + 1} \ {content[file]} :
         /\ content' = [content EXCEPT ![file] = v]
         /\ notices' = IF recorded THEN Append(notices, Notice(file, IF v = 0 THEN "gone" ELSE "there")) ELSE notices
         /\ missed' = IF recorded \/ (watcher = "reading" /\ v # 0) THEN missed ELSE missed \cup {file}
         /\ UNCHANGED <<loopVars, watcher, running>>
  BY DEF Change
<1> DEFINE n == Notice(file, IF v = 0 THEN "gone" ELSE "there")
<1>3. n \in Notices /\ notices \in Seq(Notices)
  BY <1>1 DEF Notices, MonitorTypes
<1>4. content' \in [MonPaths -> Nat] /\ content'[file] = v /\ \A p \in MonPaths : p # file => content'[p] = content[p]
  BY <1>1, <1>2 DEF MonitorTypes
<1>5. UNCHANGED <<pending, hand, indexed, reported>> /\ (running' <=> running)
  BY <1>2 DEF loopVars
<1>6. notices' \in Seq(Notices)
  BY <1>2, <1>3, AppendProperties
<1>7. MonitorTypes'
  BY <1>1, <1>2, <1>4, <1>5, <1>6 DEF MonitorTypes
<1>8. StoppedIsDeaf'
  <2>1. ~running => ~recorded
    BY DEF FollowInv, StoppedIsDeaf
  <2> QED BY <1>2, <1>5, <2>1 DEF FollowInv, StoppedIsDeaf
<1>9. ASSUME NEW p \in CompareFiles, p \notin missed' PROVE Follows(p)'
  <2>1. p \in MonPaths /\ Follows(p)
    BY <1>2, <1>9, MonitorAssumption DEF FollowInv
  <2>2. CASE ~recorded /\ p # file
    <3>1. notices' = notices /\ content'[p] = content[p]
      BY <1>2, <1>4, <2>1, <2>2
    <3> QED BY <1>5, <2>1, <3>1 DEF Follows, ReadyThere, ReadyGone, On
  <2>3. CASE ~recorded /\ p = file
    <3>1. notices' = <<Overflow>> /\ content'[p] # 0
      BY <1>2, <1>4, <1>9, <2>3
    <3> QED BY <3>1, QueuesOfNone DEF Follows
  <2>4. CASE recorded
    <3>1. notices' = Append(notices, n)
      BY <1>2, <2>4
    <3>2. /\ HasGone(notices', p) <=> HasGone(notices, p) \/ n = Gone(p)
          /\ HasThere(notices', p) <=> HasThere(notices, p) \/ n \in There(p)
          /\ Recovered(notices, p) /\ n # Gone(p) => Recovered(notices', p)
          /\ n \in There(p) => Recovered(notices', p)
      BY <1>3, <3>1, NoticeQueued
    <3>3. CASE p = file
      <4>1. CASE v = 0
        <5>1. n = Gone(p)
          BY <3>3, <4>1 DEF Gone
        <5> QED BY <1>4, <3>2, <3>3, <4>1, <5>1 DEF Follows
      <4>2. CASE v # 0
        <5>1. n \in There(p)
          BY <3>3, <4>2 DEF There
        <5> QED BY <1>4, <3>2, <3>3, <4>2, <5>1 DEF Follows
      <4> QED BY <4>1, <4>2
    <3>4. CASE p # file
      <4>1. n # Gone(p) /\ content'[p] = content[p]
        BY <1>4, <2>1, <3>4, NoticesDiffer DEF Gone
      <4> HIDE DEF n
      <4> QED BY <1>5, <2>1, <3>2, <4>1 DEF Follows, ReadyThere, ReadyGone, On
    <3> QED BY <3>3, <3>4
  <2> QED BY <2>2, <2>3, <2>4
<1> QED BY <1>7, <1>8, <1>9 DEF FollowInv

\* After an overflow the listing finds what is there, and what is gone is missed.
LEMMA OverflowFollowed == ASSUME FollowInv, LoseNotices PROVE FollowInv'
<1>1. MonitorTypes
  BY DEF FollowInv
<1>2. /\ notices' = <<Overflow>> /\ notices # <<>>
      /\ missed' = missed \cup {p \in Noticed : content[p] = 0}
      /\ UNCHANGED <<content, pending, hand, indexed, reported, running, watcher>>
  BY DEF LoseNotices, loopVars
<1>3. MonitorTypes' /\ StoppedIsDeaf'
  BY <1>1, <1>2, QueuesOfNone DEF MonitorTypes, FollowInv, StoppedIsDeaf
<1>4. ASSUME NEW p \in CompareFiles, p \notin missed' PROVE Follows(p)'
  <2>1. p \in MonPaths /\ Follows(p)
    BY <1>2, <1>4, MonitorAssumption DEF FollowInv
  <2>2. CASE content[p] # 0
    BY <1>2, <2>2, QueuesOfNone DEF Follows
  <2>3. CASE content[p] = 0
    <3>1. ~HasGone(notices, p)
      BY <1>2, <1>4, <2>1, <2>3 DEF Noticed, HasGone, Gone
    <3> QED BY <1>2, <2>1, <2>3, <3>1 DEF Follows, ReadyGone, On
  <2> QED BY <2>2, <2>3
<1> QED BY <1>3, <1>4 DEF FollowInv

\* The watcher queues a file that is there, or the removal of one that is not.
LEMMA ReadFollowed == ASSUME FollowInv, ReadNotice PROVE FollowInv'
<1> DEFINE n == Head(notices)
<1>1. MonitorTypes
  BY DEF FollowInv
<1>2. /\ running /\ notices # <<>> /\ notices' = Tail(notices) /\ missed \subseteq missed'
      /\ UNCHANGED <<content, indexed, hand, running, reported>>
  BY DEF ReadNotice
<1>3. n \in Notices /\ notices' \in Seq(Notices)
  BY <1>1, <1>2, NoticeRead DEF MonitorTypes
<1>4. \/ n = Overflow /\ \E ps \in SUBSET MonPaths : pending' = EnqueuePaths(ps) /\ MonPaths \ ps \subseteq missed'
      \/ \E p \in MonPaths : n = Gone(p) /\ pending' = EnqueueRemoval(p)
      \/ \E p \in MonPaths : n = Notice(p, "there") /\ pending' = EnqueuePaths({p})
  <2>1. ASSUME n = Overflow PROVE \E ps \in SUBSET MonPaths : pending' = EnqueuePaths(ps) /\ MonPaths \ ps \subseteq missed'
    BY <2>1 DEF ReadNotice
  <2>2. ASSUME NEW p \in MonPaths, n = Notice(p, "gone") PROVE pending' = EnqueueRemoval(p)
    <3>1. n # Overflow /\ n.kind = "gone" /\ n.path = p
      BY <2>2, NoticesDiffer DEF Notice
    <3> QED BY <3>1 DEF ReadNotice
  <2>3. ASSUME NEW p \in MonPaths, n = Notice(p, "there") PROVE pending' = EnqueuePaths({p})
    <3>1. n # Overflow /\ n.kind = "there" /\ n.path = p
      BY <2>3, NoticesDiffer DEF Notice
    <3> QED BY <3>1 DEF ReadNotice
  <2>4. n = Overflow \/ \E p \in MonPaths : n = Notice(p, "there") \/ n = Notice(p, "gone")
    BY <1>3 DEF Notices
  <2> QED BY <2>1, <2>2, <2>3, <2>4 DEF Gone
<1>5. \A p \in MonPaths \ missed' :
         /\ n = Gone(p) => pending'[p] = "removal"
         /\ n \in There(p) => pending'[p] = IF content[p] # 0 THEN "check" ELSE pending[p]
         /\ n # Gone(p) /\ n \notin There(p) => pending'[p] = pending[p]
  <2>1. ASSUME n = Overflow, NEW ps \in SUBSET MonPaths, pending' = EnqueuePaths(ps), MonPaths \ ps \subseteq missed'
        PROVE  \A p \in MonPaths \ missed' :
         /\ n = Gone(p) => pending'[p] = "removal"
         /\ n \in There(p) => pending'[p] = IF content[p] # 0 THEN "check" ELSE pending[p]
         /\ n # Gone(p) /\ n \notin There(p) => pending'[p] = pending[p]
    <3>1. \A p : n # Gone(p) /\ n \in There(p)
      BY <2>1, NoticesDiffer DEF There, Gone
    <3>2. \A p \in MonPaths \ missed' : p \in ps
      BY <2>1
    <3> HIDE DEF n
    <3> QED BY <2>1, <3>1, <3>2 DEF EnqueuePaths
  <2>2. ASSUME NEW file \in MonPaths, n = Gone(file), pending' = EnqueueRemoval(file)
        PROVE  \A p \in MonPaths \ missed' :
         /\ n = Gone(p) => pending'[p] = "removal"
         /\ n \in There(p) => pending'[p] = IF content[p] # 0 THEN "check" ELSE pending[p]
         /\ n # Gone(p) /\ n \notin There(p) => pending'[p] = pending[p]
    <3>1. \A p : n \notin There(p) /\ (n = Gone(p) <=> p = file)
      BY <2>2, NoticesDiffer DEF There, Gone
    <3> HIDE DEF n
    <3> QED BY <1>1, <2>2, <3>1 DEF EnqueueRemoval, MonitorTypes
  <2>3. ASSUME NEW file \in MonPaths, n = Notice(file, "there"), pending' = EnqueuePaths({file})
        PROVE  \A p \in MonPaths \ missed' :
         /\ n = Gone(p) => pending'[p] = "removal"
         /\ n \in There(p) => pending'[p] = IF content[p] # 0 THEN "check" ELSE pending[p]
         /\ n # Gone(p) /\ n \notin There(p) => pending'[p] = pending[p]
    <3>1. \A p : n # Gone(p) /\ (n \in There(p) <=> p = file)
      BY <2>3, NoticesDiffer DEF There, Gone
    <3> HIDE DEF n
    <3> QED BY <1>1, <2>3, <3>1 DEF EnqueuePaths, MonitorTypes
  <2> QED BY <1>4, <2>1, <2>2, <2>3
<1>6. MonitorTypes'
  <2>1. pending' \in [MonPaths -> {"none", "check", "removal"}]
    BY <1>1, <1>4 DEF MonitorTypes, EnqueuePaths, EnqueueRemoval
  <2> QED BY <1>1, <1>2, <1>3, <2>1 DEF MonitorTypes
<1>7. StoppedIsDeaf'
  BY <1>2 DEF StoppedIsDeaf
<1>8. ASSUME NEW p \in CompareFiles, p \notin missed' PROVE Follows(p)'
  <2>1. p \in MonPaths /\ Follows(p) /\ pending[p] \in {"none", "check", "removal"}
    BY <1>1, <1>2, <1>8, MonitorAssumption DEF FollowInv, MonitorTypes
  <2>2. /\ HasGone(notices, p) <=> HasGone(notices', p) \/ n = Gone(p)
        /\ HasThere(notices, p) <=> HasThere(notices', p) \/ n \in There(p)
        /\ Recovered(notices, p) => Recovered(notices', p)
        /\ Recovered(notices, p) /\ n = Gone(p) => HasThere(notices', p)
    BY <1>1, <1>2, NoticeRead DEF MonitorTypes
  <2>3. /\ n = Gone(p) => pending'[p] = "removal"
        /\ n \in There(p) => pending'[p] = IF content[p] # 0 THEN "check" ELSE pending[p]
        /\ n # Gone(p) /\ n \notin There(p) => pending'[p] = pending[p]
    BY <1>5, <1>8, <2>1
  <2> HIDE DEF n
  <2>4. CASE content[p] # 0
    <3>1. Recovered(notices', p)
      BY <2>1, <2>2, <2>4 DEF Follows
    <3>2. CASE n \in There(p)
      BY <1>2, <2>3, <2>4, <3>1, <3>2 DEF Follows, ReadyThere
    <3>3. CASE n = Gone(p)
      BY <1>2, <2>1, <2>2, <2>4, <3>1, <3>3 DEF Follows
    <3>4. CASE n # Gone(p) /\ n \notin There(p)
      <4>1. pending'[p] = pending[p] /\ content'[p] = content[p]
        BY <1>2, <2>3, <3>4
      <4>2. ReadyThere(p) => ReadyThere(p)'
        BY <1>2, <4>1 DEF ReadyThere, On
      <4> QED BY <1>2, <2>1, <2>2, <2>4, <3>1, <3>4, <4>2 DEF Follows
    <3> QED BY <3>2, <3>3, <3>4
  <2>5. CASE content[p] = 0
    <3>1. CASE n = Gone(p)
      BY <1>2, <2>3, <2>5, <3>1 DEF Follows, ReadyGone
    <3>2. CASE n # Gone(p)
      <4>1. pending'[p] = pending[p]
        BY <2>3, <2>5, <3>2
      <4>2. ReadyGone(p) => ReadyGone(p)'
        BY <1>2, <4>1 DEF ReadyGone, On
      <4> QED BY <1>2, <2>1, <2>2, <2>5, <3>2, <4>2 DEF Follows
    <3> QED BY <3>1, <3>2
  <2> QED BY <2>4, <2>5
<1> QED BY <1>6, <1>7, <1>8 DEF FollowInv

\* What no notice is about is in none of them.
LEMMA NotAbout ==
    ASSUME NEW q, NEW p \in MonPaths, p \notin AreAbout(q)
    PROVE  ~HasGone(q, p) /\ ~HasThere(q, p)
<1>1. Notice(p, "gone").path = p /\ Notice(p, "there").path = p
  BY DEF Notice
<1> QED BY <1>1 DEF AreAbout, HasGone, HasThere, Gone, There

\* A path that a step leaves alone, and of which it takes no notice away, is followed as before.
LEMMA StillFollows ==
    ASSUME NEW p, Follows(p), pending'[p] = pending[p],
           UNCHANGED <<content, hand, indexed, reported>>,
           HasGone(notices', p) <=> HasGone(notices, p),
           HasThere(notices', p) <=> HasThere(notices, p),
           Recovered(notices, p) => Recovered(notices', p)
    PROVE  Follows(p)'
BY DEF Follows, ReadyThere, ReadyGone, On

\* An answer that is lost is missed, and the others stand as they did.
LEMMA LossFollowed == ASSUME FollowInv, LoseRead PROVE FollowInv'
<1>1. MonitorTypes
  BY DEF FollowInv
<1>2. /\ running /\ notices # <<>> /\ notices' = Tail(notices)
      /\ missed' = missed \cup AreAbout(<<Head(notices)>>)
      /\ UNCHANGED <<content, indexed, hand, running, reported, pending>>
  BY DEF LoseRead, loopVars
<1>3. Head(notices) \in Notices /\ notices' \in Seq(Notices)
  BY <1>1, <1>2, NoticeRead DEF MonitorTypes
<1>4. MonitorTypes' /\ StoppedIsDeaf'
  BY <1>1, <1>2, <1>3 DEF MonitorTypes, StoppedIsDeaf
<1>5. ASSUME NEW p \in CompareFiles, p \notin missed' PROVE Follows(p)'
  <2>1. p \in MonPaths /\ Follows(p) /\ p \notin AreAbout(<<Head(notices)>>)
    BY <1>2, <1>5, MonitorAssumption DEF FollowInv
  <2>2. Head(notices) # Gone(p) /\ Head(notices) \notin There(p)
    <3>1. DOMAIN <<Head(notices)>> = {1} /\ <<Head(notices)>>[1] = Head(notices)
      OBVIOUS
    <3> QED BY <2>1, <3>1, NotAbout DEF HasGone, HasThere
  <2>3. /\ HasGone(notices', p) <=> HasGone(notices, p)
        /\ HasThere(notices', p) <=> HasThere(notices, p)
        /\ Recovered(notices, p) => Recovered(notices', p)
    BY <1>1, <1>2, <2>2, NoticeRead DEF MonitorTypes
  <2> QED BY <1>2, <2>1, <2>3, StillFollows
<1> QED BY <1>4, <1>5 DEF FollowInv

\* What a torn answer was put together from is missed, whatever is queued of it.
LEMMA TearFollowed == ASSUME FollowInv, TearRead PROVE FollowInv'
<1> DEFINE both == SubSeq(notices, 1, 2)
           rest == Tail(notices)
<1>1. MonitorTypes
  BY DEF FollowInv
<1>2. /\ running /\ Len(notices) > 1 /\ notices' = Tail(rest)
      /\ missed' = missed \cup AreAbout(both)
      /\ UNCHANGED <<content, indexed, hand, running, reported>>
  BY DEF TearRead
<1>3. PICK r \in AreAbout(both) : pending' = EnqueuePaths({r}) \/ pending' = EnqueueRemoval(r)
  BY DEF TearRead
<1>4. r \in MonPaths
  BY <1>3 DEF AreAbout
<1>5. /\ notices # <<>> /\ rest # <<>> /\ rest \in Seq(Notices) /\ notices' \in Seq(Notices)
      /\ DOMAIN both = {1, 2} /\ both[1] = Head(notices) /\ both[2] = Head(rest)
  <2>1. notices \in Seq(Notices) /\ notices # <<>> /\ Len(notices) \in Nat
    BY <1>1, <1>2 DEF MonitorTypes
  <2>2. /\ rest \in Seq(Notices) /\ Len(rest) = Len(notices) - 1 /\ rest[1] = notices[2]
        /\ Head(notices) = notices[1]
    BY <1>2, <2>1, HeadTailProperties
  <2>3. rest # <<>>
    BY <1>2, <2>1, <2>2
  <2>4. Head(rest) = rest[1] /\ Tail(rest) \in Seq(Notices)
    BY <2>2, <2>3, HeadTailProperties
  <2>5. Len(both) = 2 /\ both[1] = notices[1] /\ both[2] = notices[2]
    BY <1>2, <2>1
  <2>6. DOMAIN both = {1, 2}
    <3>1. DOMAIN both = 1 .. 2
      BY <1>2, <2>1
    <3> QED BY <3>1
  <2> QED BY <1>2, <2>1, <2>2, <2>3, <2>4, <2>5, <2>6
<1>6. MonitorTypes' /\ StoppedIsDeaf'
  <2>1. pending' \in [MonPaths -> {"none", "check", "removal"}]
    BY <1>1, <1>3, <1>4 DEF MonitorTypes, EnqueuePaths, EnqueueRemoval
  <2> QED BY <1>1, <1>2, <1>5, <2>1 DEF MonitorTypes, StoppedIsDeaf
<1>7. ASSUME NEW p \in CompareFiles, p \notin missed' PROVE Follows(p)'
  <2>1. p \in MonPaths /\ Follows(p) /\ p \notin AreAbout(both)
    BY <1>2, <1>7, MonitorAssumption DEF FollowInv
  <2>2. /\ Head(notices) # Gone(p) /\ Head(notices) \notin There(p)
        /\ Head(rest) # Gone(p) /\ Head(rest) \notin There(p)
    <3>1. ~HasGone(both, p) /\ ~HasThere(both, p)
      BY <2>1, NotAbout
    <3> HIDE DEF both, rest
    <3> QED BY <1>5, <3>1 DEF HasGone, HasThere
  <2>3. /\ HasGone(rest, p) <=> HasGone(notices, p)
        /\ HasThere(rest, p) <=> HasThere(notices, p)
        /\ Recovered(notices, p) => Recovered(rest, p)
    BY <1>1, <1>5, <2>2, NoticeRead DEF MonitorTypes
  <2> HIDE DEF rest
  <2>4. /\ HasGone(notices', p) <=> HasGone(rest, p)
        /\ HasThere(notices', p) <=> HasThere(rest, p)
        /\ Recovered(rest, p) => Recovered(notices', p)
    BY <1>2, <1>5, <2>2, NoticeRead
  <2>5. pending'[p] = pending[p]
    <3>1. p # r
      BY <1>3, <2>1
    <3> QED BY <1>1, <1>3, <2>1, <3>1 DEF EnqueuePaths, EnqueueRemoval, MonitorTypes
  <2> QED BY <1>2, <2>1, <2>3, <2>4, <2>5, StillFollows
<1> QED BY <1>6, <1>7 DEF FollowInv

\* A watcher that ends leaves what it has not read, and nothing else changes when one starts or waits.
LEMMA WatcherFollowed == ASSUME FollowInv, WatcherStarts \/ WatcherEnds \/ ReissueRead PROVE FollowInv'
<1>1. MonitorTypes
  BY DEF FollowInv
<1>2. UNCHANGED <<content, pending, hand, indexed, reported, running>> /\ missed \subseteq missed'
  BY DEF WatcherStarts, WatcherEnds, ReissueRead, loopVars
<1>3. notices' = notices \/ (notices' = <<>> /\ AreAbout(notices) \subseteq missed')
  BY DEF WatcherStarts, WatcherEnds, ReissueRead
<1>4. MonitorTypes' /\ StoppedIsDeaf'
  <2>1. notices' \in Seq(Notices)
    BY <1>1, <1>3, EmptySeq DEF MonitorTypes
  <2>2. running
    BY DEF WatcherStarts, WatcherEnds, ReissueRead
  <2> QED BY <1>1, <1>2, <2>1, <2>2 DEF MonitorTypes, StoppedIsDeaf
<1>5. ASSUME NEW p \in CompareFiles, p \notin missed' PROVE Follows(p)'
  <2>1. p \in MonPaths /\ Follows(p)
    BY <1>2, <1>5, MonitorAssumption DEF FollowInv
  <2>2. /\ HasGone(notices', p) <=> HasGone(notices, p)
        /\ HasThere(notices', p) <=> HasThere(notices, p)
        /\ Recovered(notices, p) => Recovered(notices', p)
    BY <1>3, <1>5, <2>1, NotAbout, QueuesOfNone
  <2> QED BY <1>2, <2>1, <2>2, StillFollows
<1> QED BY <1>4, <1>5 DEF FollowInv

\* The loop settles what it has taken, one way or another.
LEMMA ItemFollowed == ASSUME FollowInv, ItemStep PROVE FollowInv'
<1> DEFINE file == hand.path
<1>1. MonitorTypes
  BY DEF FollowInv
<1>2. UNCHANGED <<content, notices, running, watcher>> /\ missed \subseteq missed'
  BY DEF ItemStep, PutBack, RemovePath, Defer, Decode, DecodeFails, UpsertOrCompare, LeaveItem, watchVars
<1>3. /\ hand \in [step : {"taken", "decoded"}, path : MonPaths, removal : BOOLEAN, read : Nat]
      /\ file \in MonPaths /\ \A p : On(p) <=> p = file
  <2>1. hand.step # "none"
    BY DEF ItemStep, PutBack, RemovePath, Defer, Decode, DecodeFails, UpsertOrCompare, LeaveItem
  <2>2. hand # NoItem
    BY <2>1 DEF NoItem
  <2> QED BY <1>1, <2>2 DEF MonitorTypes, On
<1>4. /\ \A p \in MonPaths : p # file => pending'[p] = pending[p] /\ indexed'[p] = indexed[p]
                                       /\ (p \in reported <=> p \in reported')
      /\ pending' \in [MonPaths -> {"none", "check", "removal"}] /\ indexed' \in [MonPaths -> Nat]
      /\ hand' = NoItem \/ hand' = [hand EXCEPT !.step = "decoded", !.read = content[file]]
  BY <1>1, <1>3 DEF ItemStep, PutBack, RemovePath, Defer, Decode, DecodeFails, UpsertOrCompare, LeaveItem,
       Settle, GiveUp, MonitorTypes
<1>5. (~On(file)' /\ hand' = NoItem) \/ (On(file)' /\ hand' # NoItem /\ hand'.path = file /\ hand'.step = "decoded" /\ hand'.read = content[file]
                          /\ hand' \in [step : {"taken", "decoded"}, path : MonPaths, removal : BOOLEAN, read : Nat])
  <2>1. CASE hand' = NoItem
    BY <2>1 DEF On
  <2>2. CASE hand' = [hand EXCEPT !.step = "decoded", !.read = content[file]]
    <3>1. hand' \in [step : {"taken", "decoded"}, path : MonPaths, removal : BOOLEAN, read : Nat]
          /\ hand'.path = file /\ hand'.step = "decoded" /\ hand'.read = content[file]
      BY <1>1, <1>3, <2>2 DEF MonitorTypes
    <3>2. hand' # NoItem
      BY <3>1 DEF NoItem
    <3> QED BY <3>1, <3>2 DEF On
  <2> QED BY <1>4, <2>1, <2>2
<1>6. MonitorTypes'
  <2>1. hand' \in {NoItem} \cup [step : {"taken", "decoded"}, path : MonPaths, removal : BOOLEAN, read : Nat]
    BY <1>5
  <2> QED BY <1>1, <1>2, <1>4, <2>1 DEF MonitorTypes
<1>7. StoppedIsDeaf'
  <2>1. ~running => \A p \in MonPaths : pending'[p] # "none" => pending[p] # "none" \/ p = file
    BY <1>4
  <2>2. ~running /\ hand.step = "taken" => file \in missed
    BY DEF FollowInv, StoppedIsDeaf
  <2>3. hand.step # "taken" => UNCHANGED pending
    BY DEF ItemStep, PutBack, RemovePath, Defer, Decode, DecodeFails, UpsertOrCompare, LeaveItem
  <2>4. hand'.step # "taken"
    BY <1>5 DEF NoItem
  <2> QED BY <1>2, <2>1, <2>2, <2>3, <2>4 DEF FollowInv, StoppedIsDeaf
<1>8. ASSUME NEW p \in CompareFiles, p \notin missed' PROVE Follows(p)'
  <2>1. p \in MonPaths /\ Follows(p) /\ p \notin missed
    BY <1>2, <1>8, MonitorAssumption DEF FollowInv
  <2>2. CASE p # file
    <3>1. ~On(p) /\ ~On(p)'
      BY <1>3, <1>4, <2>2 DEF On
    <3>2. /\ ReadyThere(p) => ReadyThere(p)'
          /\ ReadyGone(p) => ReadyGone(p)'
      BY <1>2, <1>4, <2>1, <2>2, <3>1 DEF ReadyThere, ReadyGone
    <3> QED BY <1>2, <2>1, <3>2 DEF Follows
  <2>3. CASE p = file
    <3>1. On(p) /\ (content[p] = 0 \/ content[p] # 0) /\ pending[p] \in {"none", "check", "removal"}
      BY <1>1, <1>3, <2>1, <2>3 DEF MonitorTypes
    <3>2. ASSUME content[p] # 0, ReadyThere(p) PROVE ReadyThere(p)'
      <4>1. pending[p] = "check" \/ /\ pending[p] = "none"
                                    /\ \/ hand.step = "taken" /\ ~hand.removal
                                       \/ hand.step = "decoded" /\ hand.read = content[p]
        BY <3>1, <3>2 DEF ReadyThere
      <4>2. CASE PutBack
        <5>1. pending'[p] = IF pending[p] = "removal" \/ hand.removal THEN "removal" ELSE "check"
          BY <1>1, <2>1, <2>3, <4>2 DEF PutBack, MonitorTypes
        <5>2. pending[p] = "check" => ~hand.removal
          BY <1>8, <2>3, <4>2 DEF PutBack
        <5>3. hand.step = "taken"
          BY <4>2 DEF PutBack
        <5> QED BY <4>1, <5>1, <5>2, <5>3 DEF ReadyThere
      <4>3. CASE RemovePath
        <5>1. pending[p] = "check" /\ UNCHANGED pending
          BY <4>1, <4>3 DEF RemovePath
        <5> QED BY <5>1 DEF ReadyThere
      <4>4. CASE Defer
        <5>1. CASE pending' = [pending EXCEPT ![file] = "check"]
          BY <1>1, <2>1, <2>3, <5>1 DEF MonitorTypes, ReadyThere
        <5>2. CASE GiveUp(file) /\ UNCHANGED pending
          BY <2>3, <4>1, <5>2 DEF GiveUp, ReadyThere, On
        <5> QED BY <4>4, <5>1, <5>2 DEF Defer
      <4>5. CASE Decode
        <5>1. UNCHANGED pending /\ hand' # NoItem
          BY <1>1, <1>3, <4>5 DEF Decode, NoItem, MonitorTypes
        <5> QED BY <1>2, <1>5, <2>3, <4>1, <5>1 DEF ReadyThere, On
      <4>6. CASE DecodeFails
        BY <2>3, <4>1, <4>6 DEF DecodeFails, GiveUp, ReadyThere, On
      <4>7. CASE UpsertOrCompare
        <5>1. indexed' = [indexed EXCEPT ![p] = hand.read] /\ hand' = NoItem /\ UNCHANGED <<pending, content>>
          BY <1>8, <2>3, <4>7 DEF UpsertOrCompare, Settle
        <5>2. indexed'[p] = hand.read /\ ~On(p)'
          BY <1>1, <2>1, <5>1 DEF MonitorTypes, On
        <5>3. hand.step = "decoded"
          BY <4>7 DEF UpsertOrCompare
        <5> QED BY <4>1, <5>1, <5>2, <5>3 DEF ReadyThere
      <4>8. CASE LeaveItem
        BY <2>1, <2>3, <4>8 DEF LeaveItem, FollowInv, StoppedIsDeaf
      <4> QED BY <4>2, <4>3, <4>4, <4>5, <4>6, <4>7, <4>8 DEF ItemStep
    <3>3. ASSUME content[p] = 0, ReadyGone(p) PROVE ReadyGone(p)'
      <4>1. pending[p] # "none" \/ hand.step = "taken"
        BY <3>1, <3>3 DEF ReadyGone
      <4>2. CASE PutBack
        <5>1. pending'[p] \in {"removal", "check"}
          BY <1>1, <2>1, <2>3, <4>2 DEF PutBack, MonitorTypes
        <5> QED BY <5>1 DEF ReadyGone
      <4>3. CASE RemovePath
        <5>1. indexed'[p] = 0 /\ hand' = NoItem
          BY <1>1, <2>1, <2>3, <4>3 DEF RemovePath, Settle, MonitorTypes
        <5> QED BY <1>2, <3>3, <5>1 DEF ReadyGone, On
      <4>4. CASE Defer
        <5>1. CASE pending' = [pending EXCEPT ![file] = "check"]
          BY <1>1, <2>1, <2>3, <5>1 DEF MonitorTypes, ReadyGone
        <5>2. CASE GiveUp(file) /\ UNCHANGED pending
          BY <2>3, <5>2 DEF GiveUp, ReadyGone, On
        <5> QED BY <4>4, <5>1, <5>2 DEF Defer
      <4>5. CASE Decode \/ DecodeFails
        BY <2>3, <3>3, <4>5 DEF Decode, DecodeFails
      <4>6. CASE UpsertOrCompare
        BY <4>1, <4>6 DEF UpsertOrCompare, ReadyGone
      <4>7. CASE LeaveItem
        BY <2>1, <2>3, <4>7 DEF LeaveItem, FollowInv, StoppedIsDeaf
      <4> QED BY <4>2, <4>3, <4>4, <4>5, <4>6, <4>7 DEF ItemStep
    <3> QED BY <1>2, <2>1, <3>1, <3>2, <3>3 DEF Follows
  <2> QED BY <2>2, <2>3
<1> QED BY <1>6, <1>7, <1>8 DEF FollowInv

\* An item that is taken is what was queued.
LEMMA TakeFollowed == ASSUME FollowInv, NEW file \in MonPaths, TakeItem(file) PROVE FollowInv'
<1>1. MonitorTypes
  BY DEF FollowInv
<1>2. /\ running /\ hand = NoItem /\ pending[file] # "none"
      /\ hand' = Item(file, "taken", pending[file] = "removal", 0)
      /\ pending' = [pending EXCEPT ![file] = "none"]
      /\ UNCHANGED <<content, indexed, notices, running, reported, missed>>
  BY DEF TakeItem, watchVars
<1>3. /\ hand' \in [step : {"taken", "decoded"}, path : MonPaths, removal : BOOLEAN, read : Nat]
      /\ hand'.path = file /\ hand'.step = "taken" /\ (hand'.removal <=> pending[file] = "removal")
  BY <1>2 DEF Item
<1>4. hand' # NoItem
  BY <1>3 DEF NoItem
<1>5. /\ pending' \in [MonPaths -> {"none", "check", "removal"}] /\ pending'[file] = "none"
      /\ \A p \in MonPaths : p # file => pending'[p] = pending[p]
  BY <1>1, <1>2 DEF MonitorTypes
<1>6. MonitorTypes'
  BY <1>1, <1>2, <1>3, <1>5 DEF MonitorTypes
<1>7. StoppedIsDeaf'
  BY <1>2 DEF StoppedIsDeaf
<1>8. ASSUME NEW p \in CompareFiles, p \notin missed' PROVE Follows(p)'
  <2>1. p \in MonPaths /\ Follows(p) /\ pending[p] \in {"none", "check", "removal"}
    BY <1>1, <1>2, <1>8, MonitorAssumption DEF FollowInv, MonitorTypes
  <2>2. ~On(p) /\ (On(p)' <=> p = file)
    BY <1>2, <1>3, <1>4 DEF On
  <2>3. ReadyThere(p) => ReadyThere(p)'
    BY <1>2, <1>3, <1>5, <2>1, <2>2 DEF ReadyThere
  <2>4. ReadyGone(p) => ReadyGone(p)'
    BY <1>2, <1>3, <1>5, <2>1, <2>2 DEF ReadyGone
  <2> QED BY <1>2, <2>1, <2>3, <2>4 DEF Follows
<1> QED BY <1>6, <1>7, <1>8 DEF FollowInv

\* What a stop drops is missed.
LEMMA StopFollowed == ASSUME FollowInv, StopMonitor PROVE FollowInv'
<1>1. MonitorTypes
  BY DEF FollowInv
<1>2. /\ ~running' /\ notices' = <<>> /\ watcher' = "ended"
      /\ missed' = missed \cup AreAbout(notices)
                   \cup {p \in MonPaths : pending[p] # "none"}
                   \cup (IF hand.step = "taken" THEN {hand.path} ELSE {})
      /\ UNCHANGED <<content, pending, hand, indexed, reported>>
  BY DEF StopMonitor, loopVars
<1>3. MonitorTypes' /\ StoppedIsDeaf'
  <2>1. notices' \in Seq(Notices)
    BY <1>2
  <2>2. running' \in BOOLEAN
    BY DEF StopMonitor
  <2>3. \A p \in MonPaths : pending'[p] # "none" => p \in missed'
    BY <1>2
  <2>4. hand'.step = "taken" => hand'.path \in missed'
    BY <1>2
  <2> QED BY <1>1, <1>2, <2>1, <2>2, <2>3, <2>4 DEF MonitorTypes, StoppedIsDeaf
<1>4. ASSUME NEW p \in CompareFiles, p \notin missed' PROVE Follows(p)'
  <2>1. p \in MonPaths /\ Follows(p)
    BY <1>2, <1>4, MonitorAssumption DEF FollowInv
  <2>2. ~HasGone(notices, p) /\ ~HasThere(notices, p)
    BY <1>2, <1>4, <2>1, NotAbout
  <2>3. (content[p] # 0 => ReadyThere(p)) /\ (content[p] = 0 => ReadyGone(p))
    BY <2>1, <2>2 DEF Follows
  <2> QED BY <1>2, <2>3, QueuesOfNone DEF Follows, ReadyThere, ReadyGone, On
<1> QED BY <1>3, <1>4 DEF FollowInv

\* A monitor that is started again has nothing left to lose.
LEMMA RestartFollowed == ASSUME FollowInv, StartMonitor PROVE FollowInv'
<1>1. MonitorTypes
  BY DEF FollowInv
<1>2. /\ ~running /\ hand = NoItem /\ running' = TRUE /\ pending' = [p \in MonPaths |-> "none"]
      /\ UNCHANGED <<content, indexed, notices, hand, reported, missed>>
  BY DEF StartMonitor
<1>3. MonitorTypes' /\ StoppedIsDeaf'
  BY <1>1, <1>2 DEF MonitorTypes, StoppedIsDeaf
<1>4. ASSUME NEW p \in CompareFiles, p \notin missed' PROVE Follows(p)'
  <2>1. p \in MonPaths /\ Follows(p) /\ pending[p] = "none" /\ pending'[p] = "none"
    BY <1>2, <1>4, MonitorAssumption DEF FollowInv, StoppedIsDeaf
  <2> QED BY <1>2, <2>1 DEF Follows, ReadyThere, ReadyGone, On
<1> QED BY <1>3, <1>4 DEF FollowInv

\* Each step keeps the index on its way to the disk's state.
LEMMA FollowStep == FollowInv /\ [MonitorNext]_monVars => FollowInv'
<1> SUFFICES ASSUME FollowInv, [MonitorNext]_monVars PROVE FollowInv'
  OBVIOUS
<1>1. CASE SetPaused \/ UNCHANGED monVars
  <2>1. UNCHANGED <<content, indexed, notices, pending, hand, running, reported, missed, watcher>>
    BY <1>1 DEF SetPaused, monVars, loopVars, watchVars
  <2> QED BY <2>1 DEF FollowInv, MonitorTypes, StoppedIsDeaf, Follows, ReadyThere, ReadyGone, On
<1> QED
  BY <1>1, ChangeFollowed, OverflowFollowed, ReadFollowed, LossFollowed, TearFollowed, WatcherFollowed,
     ItemFollowed, TakeFollowed, StopFollowed, RestartFollowed
     DEF MonitorNext, Loop

\* For every set of files and number of changes, overflows, pauses and stops: where nothing is on its way
\* for a file, the index of a compare root has it as the disk does, but for what was reported as given
\* up or never heard of (MediaMonitor: watcher and loop).
THEOREM MonitorFollows == MonitorSpec => []IndexFollowsDisk
<1>1. ASSUME FollowInv, NEW p \in CompareFiles \ (missed \cup reported), running, Quiet(p)
      PROVE  indexed[p] = content[p]
  <2>1. Follows(p) /\ notices = <<>> /\ pending[p] = "none" /\ ~On(p) /\ p \notin reported
    BY <1>1 DEF FollowInv, Quiet, On
  <2> QED BY <2>1, QueuesOfNone DEF Follows, ReadyThere, ReadyGone
<1>2. FollowInv => IndexFollowsDisk
  BY <1>1 DEF IndexFollowsDisk
<1> QED
  BY <1>2, FollowBegins, FollowStep, PTL DEF MonitorSpec

-----------------------------------------------------------------------------
(* Scheduler: when the GPU is switched.                                        *)

\* The longest hold is one of the holds.
LEMMA LongestHoldIsNat == Exempt \in Nat
<1>1. \E h \in {HoldTime[m] : m \in Modes} : \A m \in Modes : HoldTime[m] <= h
  BY SchedulerAssumption
<1>2. LongestHold \in {HoldTime[m] : m \in Modes}
  BY <1>1 DEF LongestHold
<1> QED BY <1>2, SchedulerAssumption DEF Exempt

\* What a switch rests on: within a scan that has a GPU it is used exactly when
\* the published decision is not throttled, and the GPU is switched only when
\* something is published, so that the clock of switches is never behind.
SwitchInv ==
  /\ used \in BOOLEAN
  /\ lastThrottled \in BOOLEAN
  /\ run \in [on: BOOLEAN, mode: Modes, gpu: BOOLEAN]
  /\ run.on => used = (run.gpu /\ ~lastThrottled)
  /\ run.on => (lastThrottled => run.gpu)
  /\ sincePublish \in 0..Exempt
  /\ sinceSwitch \in 0..Exempt
  /\ sincePublish <= sinceSwitch

\* Before the first scan nothing is used.
LEMMA SwitchInit == SchedulerInit => SwitchInv
<1> SUFFICES ASSUME SchedulerInit PROVE SwitchInv
  OBVIOUS
<1>1. run \in [on: BOOLEAN, mode: Modes, gpu: BOOLEAN] /\ ~run.on
  BY SchedulerAssumption DEF SchedulerInit, NoScan
<1>2. /\ sincePublish \in 0..Exempt /\ sinceSwitch \in 0..Exempt
      /\ sincePublish <= sinceSwitch
  BY LongestHoldIsNat DEF SchedulerInit
<1>3. used \in BOOLEAN /\ lastThrottled \in BOOLEAN
  BY DEF SchedulerInit
<1> QED BY <1>1, <1>2, <1>3 DEF SwitchInv

\* The decision at the start of a scan.
LEMMA DecideStep ==
  ASSUME SwitchInv, NEW mode \in Modes, NEW gpu \in BOOLEAN, Decide(mode, gpu)
  PROVE  SwitchInv'
<1>1. run' = [on |-> TRUE, mode |-> mode, gpu |-> gpu]
  BY DEF Decide
<1>2. lastThrottled' = (gpu /\ Kills(mode, samples')) /\ used' = (gpu /\ ~lastThrottled')
  BY DEF Decide
<1>3. lastThrottled' \in BOOLEAN /\ used' \in BOOLEAN
  BY <1>2
<1>4. /\ run' \in [on: BOOLEAN, mode: Modes, gpu: BOOLEAN]
      /\ used' = (run'.gpu /\ ~lastThrottled')
      /\ lastThrottled' => run'.gpu
  BY <1>1, <1>2
<1>5. sincePublish' = Exempt /\ sinceSwitch' = Exempt
  BY DEF Decide
<1> QED BY <1>3, <1>4, <1>5, LongestHoldIsNat DEF SwitchInv

\* A re-evaluation publishes its decision, and then the throttle with it, or
\* changes neither.
LEMMA Published ==
  ASSUME SwitchInv, NEW moved \in BOOLEAN, Reevaluate(moved)
  PROVE  \/ /\ sincePublish >= HoldTime[run.mode]
            /\ used' = (run.gpu /\ ~Throttled(samples', lastThrottled))
            /\ lastThrottled' = Throttled(samples', lastThrottled)
            /\ sincePublish' = 0
         \/ UNCHANGED <<used, lastThrottled, sincePublish>>
BY Zenon DEF Reevaluate

\* A re-evaluation keeps the invariant.
LEMMA ReevaluateStep ==
  ASSUME SwitchInv, NEW moved \in BOOLEAN, Reevaluate(moved)
  PROVE  SwitchInv'
<1> DEFINE t == Throttled(samples', lastThrottled)
<1>1. run' = run /\ sinceSwitch' = (IF used' # used THEN 0 ELSE sinceSwitch)
  BY DEF Reevaluate
<1>2. t \in BOOLEAN /\ (t => run.gpu)
  BY DEF Throttled
<1>3. CASE UNCHANGED <<used, lastThrottled, sincePublish>>
  BY <1>1, <1>3 DEF SwitchInv
<1>4. CASE /\ used' = (run.gpu /\ ~t)
           /\ lastThrottled' = t
           /\ sincePublish' = 0
  <2> HIDE DEF t
  <2>1. used' \in BOOLEAN /\ lastThrottled' \in BOOLEAN
    BY <1>2, <1>4
  <2>2. /\ run'.on => used' = (run'.gpu /\ ~lastThrottled')
        /\ run'.on => (lastThrottled' => run'.gpu)
    BY <1>1, <1>2, <1>4
  <2>3. /\ sincePublish' \in 0..Exempt /\ sinceSwitch' \in 0..Exempt
        /\ sincePublish' <= sinceSwitch'
    BY <1>1, <1>4, LongestHoldIsNat DEF SwitchInv
  <2> QED BY <1>1, <2>1, <2>2, <2>3 DEF SwitchInv
<1> QED BY <1>3, <1>4, Published

\* The clocks go on together.
LEMMA TickStep ==
  ASSUME SwitchInv, SchedulerTick
  PROVE  SwitchInv'
<1>1. /\ sincePublish' \in 0..Exempt /\ sinceSwitch' \in 0..Exempt
      /\ sincePublish' <= sinceSwitch'
  BY LongestHoldIsNat DEF SchedulerTick, SwitchInv
<1> QED BY <1>1 DEF SchedulerTick, SwitchInv

\* Each step keeps the invariant.
LEMMA SwitchStep == SwitchInv /\ [SchedulerNext]_schedulerVars => SwitchInv'
<1> SUFFICES ASSUME SwitchInv, [SchedulerNext]_schedulerVars
             PROVE  SwitchInv'
  OBVIOUS
<1>1. ASSUME NEW a, LoadChanges(a) PROVE SwitchInv'
  BY <1>1 DEF LoadChanges, SwitchInv
<1>2. CASE EndScan
  <2>1. run' \in [on: BOOLEAN, mode: Modes, gpu: BOOLEAN] /\ ~run'.on
    BY <1>2, SchedulerAssumption DEF EndScan, NoScan
  <2>2. /\ sincePublish' \in 0..Exempt /\ sinceSwitch' \in 0..Exempt
        /\ sincePublish' <= sinceSwitch'
    BY <1>2, LongestHoldIsNat DEF EndScan
  <2>3. used' \in BOOLEAN /\ lastThrottled' \in BOOLEAN
    BY <1>2 DEF EndScan
  <2> QED BY <2>1, <2>2, <2>3 DEF SwitchInv
<1>3. CASE UNCHANGED schedulerVars
  BY <1>3 DEF schedulerVars, SwitchInv
<1> QED
  BY <1>1, <1>2, <1>3, DecideStep, ReevaluateStep, TickStep DEF SchedulerNext

\* A step that switches the GPU within a scan is a published re-evaluation.
LEMMA SwitchIsDue ==
  ASSUME SwitchInv, [SchedulerNext]_schedulerVars, run.on, run'.on, used' # used
  PROVE  /\ IF used THEN Kills(run.mode, samples') ELSE Relieves(run.mode, samples')
         /\ sinceSwitch >= HoldTime[run.mode]
<1>1. PICK moved \in BOOLEAN : Reevaluate(moved)
  <2>1. ~EndScan
    BY DEF EndScan, NoScan
  <2>2. ~SchedulerTick /\ ~UNCHANGED schedulerVars
    BY DEF SchedulerTick, schedulerVars
  <2>3. \A a : ~LoadChanges(a)
    BY DEF LoadChanges
  <2>4. \A mode, gpu : ~Decide(mode, gpu)
    BY DEF Decide
  <2> QED BY <2>1, <2>2, <2>3, <2>4 DEF SchedulerNext
<1>2. /\ sincePublish >= HoldTime[run.mode]
      /\ used' = (run.gpu /\ ~Throttled(samples', lastThrottled))
  BY <1>1, Published
<1>0. sinceSwitch >= HoldTime[run.mode]
  <2>1. run.mode \in Modes
    BY DEF SwitchInv
  <2>2. HoldTime[run.mode] \in Nat /\ Exempt \in Nat
    BY <2>1, SchedulerAssumption, LongestHoldIsNat
  <2>3. sincePublish \in 0..Exempt /\ sinceSwitch \in 0..Exempt /\ sincePublish <= sinceSwitch
    BY DEF SwitchInv
  <2>4. sincePublish >= HoldTime[run.mode]
    BY <1>2
  <2> HIDE DEF SwitchInv
  <2> QED BY <2>2, <2>3, <2>4
<1>3. CASE used
  <2>1. run.gpu /\ ~lastThrottled
    BY <1>3 DEF SwitchInv
  <2>2. Throttled(samples', lastThrottled)
    BY <1>2, <1>3, <2>1
  <2> QED BY <1>0, <1>3, <2>1, <2>2 DEF Throttled
<1>4. CASE ~used
  <2>0. used = FALSE
    BY <1>4 DEF SwitchInv
  <2>1. run.gpu /\ ~Throttled(samples', lastThrottled)
    BY <1>2, <2>0
  <2>2. lastThrottled
    BY <1>4, <2>1 DEF SwitchInv
  <2> QED BY <1>0, <1>4, <2>1, <2>2 DEF Throttled
<1> QED BY <1>3, <1>4 DEF SwitchInv

\* For all modes, edges, holds and windows: within a scan the GPU is given up
\* only at the lower edge and taken back only above the upper one, and two
\* switches are a hold apart (maybeReevaluate, effectivePair).
THEOREM SwitchesAreHeld == SchedulerSpec => SwitchesHoldStill
<1>1. SchedulerSpec => []SwitchInv
  BY SwitchInit, SwitchStep, PTL DEF SchedulerSpec
<1>2. SwitchInv /\ [SchedulerNext]_schedulerVars =>
        [run.on /\ run'.on /\ used' # used =>
           /\ IF used THEN Kills(run.mode, samples') ELSE Relieves(run.mode, samples')
           /\ sinceSwitch >= HoldTime[run.mode]]_schedulerVars
  BY SwitchIsDue
<1> QED BY <1>1, <1>2, PTL DEF SchedulerSpec, SwitchesHoldStill

-----------------------------------------------------------------------------
(* StallWatchdog: its verdict never ends a scan.                               *)

\* A batch of images is the only unit whose silence would cancel, and nobody asks before something of
\* it has completed: it is taken up and worked off in one call.
SpareInv == LongWorkKept /\ (unitKind = "images" => stage = "batch" \/ unitMoved)

\* At first there is no unit but the walk.
LEMMA SpareBegins == WdInit => SpareInv
BY DEF WdInit, SpareInv, LongWorkKept

\* Who asks in a unit that is spared gets no verdict that cancels.
LEMMA JudgedMildly == ASSUME SpareInv, stage # "batch" PROVE Judge # "cancel"
BY DEF SpareInv, Judge

\* Each step keeps this.
LEMMA SpareStep == SpareInv /\ [WdNext]_wdVars => SpareInv'
<1> SUFFICES ASSUME SpareInv, [WdNext]_wdVars PROVE SpareInv'
  OBVIOUS
<1>1. CASE Poll
  <2>1. stage # "batch" /\ UNCHANGED workVars /\ CheckWatchdog
    BY <1>1 DEF Poll
  <2>2. stallVerdict' # "cancel"
    BY <2>1, JudgedMildly DEF CheckWatchdog
  <2>3. unitMoved' = TRUE \/ unitMoved' = unitMoved
    BY <2>1 DEF CheckWatchdog, NoteActivity, clockVars
  <2> QED BY <2>1, <2>2, <2>3 DEF SpareInv, LongWorkKept, workVars
<1>2. CASE AnalyzePoll
  <2>1. stage # "batch"
    BY <1>2 DEF AnalyzePoll
  <2> QED BY <1>2, <2>1, JudgedMildly DEF AnalyzePoll, SpareInv, LongWorkKept
<1>3. CASE TakeUp \/ BeginAnalyze
  BY <1>3 DEF TakeUp, BeginAnalyze, BeginUnit, SpareInv, LongWorkKept
<1>4. CASE BatchItem \/ RangeItem
  BY <1>4 DEF BatchItem, RangeItem, NoteActivity, SpareInv, LongWorkKept
<1>5. CASE StallTick \/ Side \/ AnalyzeEnds \/ UNCHANGED wdVars
  <2>1. UNCHANGED <<unitKind, unitMoved, stallVerdict>> /\ (stage' = stage \/ stage = "analyze")
    BY <1>5 DEF StallTick, Side, AnalyzeEnds, wdVars, workVars, clockVars
  <2> QED BY <2>1 DEF SpareInv, LongWorkKept
<1> QED BY <1>1, <1>2, <1>3, <1>4, <1>5 DEF WdNext

\* For every size of batches and ranges: however long a video, a batch or a pair of the final pass
\* takes, the detector only ever diagnoses (StallWatchdog::check and those who ask it).
THEOREM LongWorkIsKept == WdSpec => []LongWorkKept
<1>1. SpareInv => LongWorkKept
  BY DEF SpareInv
<1> QED BY <1>1, SpareBegins, SpareStep, PTL DEF WdSpec

-----------------------------------------------------------------------------
(* The types of the threads.                                                   *)

\* What the types of the monitor rest on: a file has no more versions than the disk has changed, and
\* what was read of it is one of them.
Versions == 0 .. 1 + MaxChanges
MonitorCounted ==
    /\ budget \in [{"change", "overflow", "timeout", "pause", "stop"} -> Nat]
    /\ \A p \in MonPaths : content[p] + budget["change"] <= 1 + MaxChanges
    /\ \A p \in MonPaths : indexed[p] \in Versions
    /\ hand # NoItem => hand.read \in Versions
    /\ retryCounts \in [MonPaths -> 0 .. MaxRetries]
    /\ monPaused \in BOOLEAN /\ reported \subseteq MonPaths /\ missed \subseteq MonPaths

\* The monitor begins with all of its bounds.
LEMMA MonitorCountedAtFirst == MonitorInit => MonitorCounted
<1> SUFFICES ASSUME MonitorInit PROVE MonitorCounted
  OBVIOUS
<1>1. MaxChanges \in Nat /\ MaxOverflows \in Nat /\ MaxTimeouts \in Nat /\ MaxPauses \in Nat /\ MaxStops \in Nat /\ MaxRetries \in Nat
  BY MonitorAssumption
<1>2. budget \in [{"change", "overflow", "timeout", "pause", "stop"} -> Nat] /\ budget["change"] = MaxChanges
  BY <1>1 DEF MonitorInit
<1>3. \A p \in MonPaths : content[p] \in {0, 1} /\ indexed[p] \in {0, 1}
  BY DEF MonitorInit
<1>4. \A p \in MonPaths : content[p] + budget["change"] <= 1 + MaxChanges /\ indexed[p] \in Versions
  BY <1>1, <1>2, <1>3 DEF Versions
<1>5. retryCounts \in [MonPaths -> 0 .. MaxRetries]
  BY <1>1 DEF MonitorInit
<1> QED BY <1>2, <1>4, <1>5 DEF MonitorInit, MonitorCounted

\* What a step that has the bound has left of it.
LEMMA Spent ==
    ASSUME MonitorCounted, NEW what \in {"change", "overflow", "timeout", "pause", "stop"}, Spend(what)
    PROVE  /\ budget' \in [{"change", "overflow", "timeout", "pause", "stop"} -> Nat]
           /\ budget'["change"] = IF what = "change" THEN budget["change"] - 1 ELSE budget["change"]
           /\ budget'["timeout"] = IF what = "timeout" THEN budget["timeout"] - 1 ELSE budget["timeout"]
           /\ budget["change"] \in Nat /\ budget[what] > 0
BY DEF MonitorCounted, Spend

\* Each step keeps the bounds.
LEMMA MonitorCountedStep == FollowInv /\ MonitorCounted /\ [MonitorNext]_monVars => MonitorCounted'
<1> SUFFICES ASSUME FollowInv, MonitorCounted, [MonitorNext]_monVars PROVE MonitorCounted'
  OBVIOUS
<1>0. /\ MaxChanges \in Nat /\ MaxRetries \in Nat /\ MaxRetries >= 1
      /\ content \in [MonPaths -> Nat] /\ indexed \in [MonPaths -> Nat]
      /\ hand \in {NoItem} \cup [step : {"taken", "decoded"}, path : MonPaths, removal : BOOLEAN, read : Nat]
      /\ budget["change"] \in Nat /\ \A p \in MonPaths : content[p] \in Versions
  BY MonitorAssumption DEF FollowInv, MonitorTypes, MonitorCounted, Versions
<1>1. ASSUME NEW p \in MonPaths, Change(p) PROVE MonitorCounted'
  <2>1. PICK v \in {0, content[p] + 1} : content' = [content EXCEPT ![p] = v]
    BY <1>1 DEF Change
  <2>2. Spend("change") /\ missed' \subseteq missed \cup {p} /\ UNCHANGED <<loopVars, monPaused>>
    BY <1>1 DEF Change
  <2>3. /\ budget' \in [{"change", "overflow", "timeout", "pause", "stop"} -> Nat]
        /\ budget'["change"] = budget["change"] - 1 /\ budget["change"] > 0
    BY <2>2, Spent
  <2>4. ASSUME NEW q \in MonPaths PROVE content'[q] + budget'["change"] <= 1 + MaxChanges
    <3>1. content[q] \in Nat /\ content[q] + budget["change"] <= 1 + MaxChanges
      BY <1>0 DEF MonitorCounted
    <3>2. content'[q] = content[q] \/ content'[q] = 0 \/ content'[q] = content[q] + 1
      BY <1>0, <2>1
    <3> QED BY <1>0, <2>3, <3>1, <3>2
  <2> QED BY <2>2, <2>3, <2>4 DEF MonitorCounted, loopVars
<1>2. CASE LoseNotices \/ StopMonitor \/ SetPaused
  <2>1. UNCHANGED <<content, loopVars>>
    BY <1>2 DEF LoseNotices, StopMonitor, SetPaused
  <2>2. budget' \in [{"change", "overflow", "timeout", "pause", "stop"} -> Nat] /\ budget'["change"] = budget["change"]
    BY <1>2, Spent DEF LoseNotices, StopMonitor, SetPaused, MonitorCounted
  <2>3. monPaused' \in BOOLEAN
    BY <1>2 DEF LoseNotices, StopMonitor, SetPaused, MonitorCounted
  <2>4. missed' \subseteq MonPaths
    <3>1. Noticed \subseteq MonPaths /\ AreAbout(notices) \subseteq MonPaths /\ (hand.step = "taken" => hand.path \in MonPaths)
      BY <1>0 DEF Noticed, AreAbout, NoItem
    <3> QED BY <1>2, <3>1 DEF LoseNotices, StopMonitor, SetPaused, MonitorCounted
  <2> QED BY <2>1, <2>2, <2>3, <2>4 DEF MonitorCounted, loopVars
<1>3. CASE WatcherStarts \/ WatcherEnds \/ ReissueRead \/ ReadNotice \/ LoseRead \/ TearRead \/ UNCHANGED monVars
  <2>1. UNCHANGED <<content, indexed, hand, retryCounts, reported, monPaused>>
    BY <1>3 DEF WatcherStarts, WatcherEnds, ReissueRead, ReadNotice, LoseRead, TearRead, monVars, loopVars
  <2>2. budget' \in [{"change", "overflow", "timeout", "pause", "stop"} -> Nat] /\ budget'["change"] = budget["change"]
    <3>1. UNCHANGED budget \/ Spend("timeout")
      BY <1>3 DEF WatcherStarts, WatcherEnds, ReissueRead, ReadNotice, LoseRead, TearRead, monVars
    <3> QED BY <3>1, Spent DEF MonitorCounted
  <2>3. missed' \subseteq MonPaths
    <3>1. \A q : AreAbout(q) \subseteq MonPaths
      BY DEF AreAbout
    <3> QED BY <1>3, <3>1 DEF WatcherStarts, WatcherEnds, ReissueRead, ReadNotice, LoseRead, TearRead, monVars, MonitorCounted
  <2> QED BY <2>1, <2>2, <2>3 DEF MonitorCounted
<1>4. ASSUME NEW p \in MonPaths, TakeItem(p) PROVE MonitorCounted'
  <2>1. hand'.read = 0 /\ 0 \in Versions
    BY <1>0, <1>4 DEF TakeItem, Item, Versions
  <2> QED BY <1>4, <2>1 DEF TakeItem, MonitorCounted
<1>5. CASE ItemStep
  <2>1. UNCHANGED <<content, monPaused, budget>>
    BY <1>5 DEF ItemStep, PutBack, RemovePath, Defer, Decode, DecodeFails, UpsertOrCompare, LeaveItem
  <2>2. hand.step \in {"taken", "decoded"} /\ hand # NoItem /\ hand.path \in MonPaths /\ hand.read \in Versions
    <3>1. hand.step \in {"taken", "decoded"}
      BY <1>5 DEF ItemStep, PutBack, RemovePath, Defer, Decode, DecodeFails, UpsertOrCompare, LeaveItem
    <3>2. hand # NoItem
      BY <3>1 DEF NoItem
    <3> QED BY <1>0, <3>1, <3>2 DEF MonitorCounted
  <2>3. hand' # NoItem => hand'.read \in Versions
    <3>1. CASE Decode
      <4>1. hand'.read = content[hand.path]
        BY <1>0, <2>2, <3>1 DEF Decode
      <4> QED BY <1>0, <2>2, <4>1
    <3>2. CASE ~Decode
      BY <1>5, <3>2 DEF ItemStep, PutBack, RemovePath, Defer, DecodeFails, UpsertOrCompare, LeaveItem, Settle, GiveUp
    <3> QED BY <3>1, <3>2
  <2>4. \A p \in MonPaths : indexed'[p] \in Versions
    <3>1. indexed' = indexed \/ \E v \in {0, hand.read} : indexed' = [indexed EXCEPT ![hand.path] = v]
      BY <1>5 DEF ItemStep, PutBack, RemovePath, Defer, Decode, DecodeFails, UpsertOrCompare, LeaveItem
    <3>2. 0 \in Versions
      BY <1>0 DEF Versions
    <3> QED BY <1>0, <2>2, <3>1, <3>2 DEF MonitorCounted
  <2>5. retryCounts' \in [MonPaths -> 0 .. MaxRetries]
    <3>1. CASE Defer
      <4>1. \/ retryCounts' = [retryCounts EXCEPT ![hand.path] = 0]
            \/ /\ ~(retryCounts[hand.path] + 1 > MaxRetries)
               /\ retryCounts' = [retryCounts EXCEPT ![hand.path] = retryCounts[hand.path] + 1]
        BY <3>1 DEF Defer
      <4>2. retryCounts[hand.path] \in 0 .. MaxRetries
        BY <2>2 DEF MonitorCounted
      <4> QED BY <1>0, <2>2, <4>1, <4>2 DEF MonitorCounted
    <3>2. CASE ~Defer
      <4>1. retryCounts' = retryCounts \/ retryCounts' = [retryCounts EXCEPT ![hand.path] = 0]
        BY <1>5, <3>2 DEF ItemStep, PutBack, RemovePath, Decode, DecodeFails, UpsertOrCompare, LeaveItem, Settle
      <4> QED BY <1>0, <2>2, <4>1 DEF MonitorCounted
    <3> QED BY <3>1, <3>2
  <2>6. reported' \subseteq MonPaths /\ missed' \subseteq MonPaths
    <3>1. reported' \subseteq reported \cup {hand.path} /\ missed' \subseteq missed \cup {hand.path}
      BY <1>5 DEF ItemStep, PutBack, RemovePath, Defer, Decode, DecodeFails, UpsertOrCompare, LeaveItem, Settle, GiveUp
    <3> QED BY <2>2, <3>1 DEF MonitorCounted
  <2> QED BY <2>1, <2>3, <2>4, <2>5, <2>6 DEF MonitorCounted
<1>6. CASE StartMonitor
  <2>1. retryCounts' \in [MonPaths -> 0 .. MaxRetries] /\ monPaused' = FALSE
    BY <1>0, <1>6 DEF StartMonitor
  <2> QED BY <1>6, <2>1 DEF StartMonitor, MonitorCounted
<1> QED BY <1>1, <1>2, <1>3, <1>4, <1>5, <1>6 DEF MonitorNext, Loop

\* A read is left out for each wait that ran out, at most.
WatcherCounted ==
    /\ watcher \in {"starting", "reading", "ended"}
    /\ requests \in Nat /\ requests + budget["timeout"] <= MaxTimeouts

\* None is out at first.
LEMMA WatcherCountedAtFirst == MonitorInit => WatcherCounted
<1>1. MaxTimeouts \in Nat
  BY MonitorAssumption
<1>2. MonitorInit => requests = 0 /\ budget["timeout"] = MaxTimeouts /\ watcher = "starting"
  BY DEF MonitorInit
<1> QED BY <1>1, <1>2 DEF WatcherCounted

\* Each step keeps this.
LEMMA WatcherCountedStep == MonitorCounted /\ WatcherCounted /\ [MonitorNext]_monVars => WatcherCounted'
<1> SUFFICES ASSUME MonitorCounted, WatcherCounted, [MonitorNext]_monVars PROVE WatcherCounted'
  OBVIOUS
<1>0. MaxTimeouts \in Nat /\ budget["timeout"] \in Nat
  BY MonitorAssumption DEF MonitorCounted
<1>1. ASSUME NEW what \in {"change", "overflow", "pause", "stop"}, Spend(what) PROVE budget'["timeout"] = budget["timeout"]
  BY <1>1, Spent
<1>2. CASE \/ \E p \in MonPaths : Change(p)
           \/ LoseNotices \/ StopMonitor \/ SetPaused
  <2>1. (watcher' = watcher /\ requests' = requests) \/ (watcher' = "ended" /\ requests' = 0)
    BY <1>2 DEF Change, LoseNotices, StopMonitor, SetPaused, watchVars
  <2>2. budget'["timeout"] = budget["timeout"]
    BY <1>1, <1>2 DEF Change, LoseNotices, StopMonitor, SetPaused
  <2> QED BY <1>0, <2>1, <2>2 DEF WatcherCounted
<1>3. CASE ReissueRead
  <2>1. budget'["timeout"] = budget["timeout"] - 1 /\ watcher' = watcher /\ requests' = requests + 1
    BY <1>3, Spent DEF ReissueRead
  <2> QED BY <1>0, <2>1 DEF WatcherCounted
<1>4. CASE WatcherStarts \/ WatcherEnds \/ ReadNotice \/ LoseRead \/ TearRead \/ StartMonitor
  <2>1. /\ budget' = budget /\ watcher' \in {"starting", "reading", "ended"}
        /\ requests' = requests \/ requests' = 0 \/ (requests > 0 /\ requests' = requests - 1)
    BY <1>4 DEF WatcherStarts, WatcherEnds, ReadNotice, LoseRead, TearRead, StartMonitor, WatcherCounted
  <2> QED BY <1>0, <2>1 DEF WatcherCounted
<1>5. CASE Loop \/ UNCHANGED monVars
  <2>1. UNCHANGED <<watcher, requests, budget>>
    BY <1>5 DEF Loop, TakeItem, ItemStep, PutBack, RemovePath, Defer, Decode, DecodeFails, UpsertOrCompare,
                LeaveItem, watchVars, monVars
  <2> QED BY <2>1 DEF WatcherCounted
<1> QED BY <1>2, <1>3, <1>4, <1>5 DEF MonitorNext

\* These are the types of the monitor.
LEMMA MonitorTyped == FollowInv /\ MonitorCounted /\ WatcherCounted => MonitorTypeOK
<1> SUFFICES ASSUME FollowInv, MonitorCounted, WatcherCounted PROVE MonitorTypeOK
  OBVIOUS
<1>1. /\ content \in [MonPaths -> Nat] /\ indexed \in [MonPaths -> Nat] /\ budget["change"] \in Nat
      /\ MaxChanges \in Nat
  BY MonitorAssumption DEF FollowInv, MonitorTypes, MonitorCounted
<1>2. content \in [MonPaths -> 0 .. 1 + MaxChanges]
  <2>1. ASSUME NEW p \in MonPaths PROVE content[p] \in 0 .. 1 + MaxChanges
    <3>1. content[p] \in Nat /\ content[p] + budget["change"] <= 1 + MaxChanges
      BY <1>1 DEF MonitorCounted
    <3> QED BY <1>1, <3>1
  <2> QED BY <1>1, <2>1
<1>3. indexed \in [MonPaths -> 0 .. 1 + MaxChanges]
  BY <1>1 DEF MonitorCounted, Versions
<1>4. hand = NoItem \/ hand.path \in MonPaths
  BY DEF FollowInv, MonitorTypes
<1>5. requests \in 0 .. MaxTimeouts
  BY MonitorAssumption DEF WatcherCounted, MonitorCounted
<1> QED BY <1>2, <1>3, <1>4, <1>5 DEF MonitorTypeOK, MonitorCounted, WatcherCounted, FollowInv, MonitorTypes

\* What the types of the scheduler add to SwitchInv.
SchedulerCounted ==
  /\ avail \in Levels \cup {Unknown}
  /\ samples \in Seq(Levels) /\ Len(samples) <= Window
  /\ sinceEval \in 0..EvalEvery

\* Before the first scan there are no samples.
LEMMA SchedulerCountedAtFirst == SchedulerInit => SchedulerCounted
BY SchedulerAssumption DEF SchedulerInit, SchedulerCounted

\* A sample that is added pushes out the oldest of a full window.
LEMMA SmoothedTyped == ASSUME SchedulerCounted PROVE Smoothed \in Seq(Levels) /\ Len(Smoothed) <= Window
<1>1. Window \in Nat \ {0} /\ samples \in Seq(Levels) /\ Len(samples) <= Window
  BY SchedulerAssumption DEF SchedulerCounted
<1>2. CASE avail = Unknown
  BY <1>1, <1>2 DEF Smoothed
<1>3. CASE avail # Unknown
  <2>1. PICK q : q = Append(samples, avail)
    OBVIOUS
  <2>2. avail \in Levels
    BY <1>3 DEF SchedulerCounted
  <2>3. q \in Seq(Levels) /\ Len(q) = Len(samples) + 1 /\ Len(samples) \in Nat
    BY <1>1, <2>1, <2>2
  <2>4. Tail(q) \in Seq(Levels) /\ Len(Tail(q)) = Len(samples)
    BY <2>3
  <2>5. Smoothed = IF Len(q) > Window THEN Tail(q) ELSE q
    BY <1>3, <2>1 DEF Smoothed
  <2> QED BY <1>1, <2>3, <2>4, <2>5
<1> QED BY <1>2, <1>3

\* Each step keeps this.
LEMMA SchedulerCountedStep == SchedulerCounted /\ [SchedulerNext]_schedulerVars => SchedulerCounted'
<1> SUFFICES ASSUME SchedulerCounted, [SchedulerNext]_schedulerVars PROVE SchedulerCounted'
  OBVIOUS
<1>0. EvalEvery \in Nat \ {0} /\ Window \in Nat \ {0}
  BY SchedulerAssumption
<1>1. ASSUME NEW mode, NEW gpu, Decide(mode, gpu) PROVE SchedulerCounted'
  <2>1. avail' = avail /\ sinceEval' = EvalEvery /\ samples' = IF avail = Unknown THEN <<>> ELSE <<avail>>
    BY <1>1 DEF Decide
  <2>2. samples' \in Seq(Levels) /\ Len(samples') <= Window
    BY <1>0, <2>1 DEF SchedulerCounted
  <2> QED BY <1>0, <2>1, <2>2 DEF SchedulerCounted
<1>2. ASSUME NEW moved, Reevaluate(moved) PROVE SchedulerCounted'
  <2>1. avail' = avail /\ sinceEval' = 0 /\ samples' = Smoothed
    BY <1>2 DEF Reevaluate
  <2> QED BY <1>0, <2>1, SmoothedTyped DEF SchedulerCounted
<1>3. CASE SchedulerTick
  BY <1>0, <1>3 DEF SchedulerTick, SchedulerCounted
<1>4. ASSUME NEW a \in Levels \cup {Unknown}, LoadChanges(a) PROVE SchedulerCounted'
  BY <1>4 DEF LoadChanges, SchedulerCounted
<1>5. CASE EndScan
  BY <1>0, <1>5 DEF EndScan, SchedulerCounted
<1>6. CASE UNCHANGED schedulerVars
  BY <1>6 DEF schedulerVars, SchedulerCounted
<1> QED BY <1>1, <1>2, <1>3, <1>4, <1>5, <1>6 DEF SchedulerNext

\* What each of the parts keeps, all at once.
ThreadsInv == IInv /\ SwitchInv /\ SchedulerCounted /\ FollowInv /\ MonitorCounted /\ WatcherCounted

\* Whichever part takes a step, all of them keep what they keep.
LEMMA ThreadsStep == ThreadsInv /\ [ThreadsNext]_threadVars => ThreadsInv'
<1> SUFFICES ASSUME ThreadsInv, [ThreadsNext]_threadVars PROVE ThreadsInv'
  OBVIOUS
<1>1. [WalkNext]_walkVars /\ [SchedulerNext]_schedulerVars /\ [MonitorNext]_monVars
  BY DEF ThreadsNext, threadVars
<1>2. IInv'
  BY <1>1, StepInv DEF ThreadsInv
<1>3. SwitchInv' /\ SchedulerCounted'
  BY <1>1, SwitchStep, SchedulerCountedStep DEF ThreadsInv
<1>4. FollowInv' /\ MonitorCounted' /\ WatcherCounted'
  BY <1>1, FollowStep, MonitorCountedStep, WatcherCountedStep DEF ThreadsInv
<1> QED BY <1>2, <1>3, <1>4 DEF ThreadsInv

\* For all values of the constants the walk, the scheduler and the monitor have their types: no window
\* of samples is overfull, no count of retries passes its limit.
THEOREM ThreadsAreTyped == ThreadsSpec => []ThreadsTypeOK
<1>1. ThreadsInit => ThreadsInv
  BY InitInv, SwitchInit, SchedulerCountedAtFirst, FollowBegins, MonitorCountedAtFirst, WatcherCountedAtFirst DEF ThreadsInit, ThreadsInv
<1>2. ThreadsInv => ThreadsTypeOK
  <2>1. ThreadsInv => SchedulerTypeOK
    BY DEF ThreadsInv, SwitchInv, SchedulerCounted, SchedulerTypeOK
  <2> QED BY <2>1, MonitorTyped DEF ThreadsInv, IInv, ThreadsTypeOK
<1> QED BY <1>1, <1>2, ThreadsStep, PTL DEF ThreadsSpec
=============================================================================
