------------------------------ MODULE WalkerQueue ------------------------------
(***************************************************************************)
(* The bounded queue between the directory walker and the analysis          *)
(* consumer of a scan (src/walker_queue.cpp).  Every operation takes the    *)
(* queue's mutex for its whole duration, so each is one step.  Waiting is   *)
(* not state: both waits are bounded (100 ms in push, the caller's timeout  *)
(* in waitForData) and simply try again, so notifications only make a retry *)
(* come earlier.  The model has no notifications at all.                    *)
(*                                                                         *)
(* cancel is the scan's cancel flag, which push reads but does not own.     *)
(***************************************************************************)
EXTENDS Naturals, Sequences

CONSTANTS Items,      \* what can be pushed
          Capacity    \* capacity_: at most this many items are buffered

VARIABLES queue,      \* queue_
          shutdown,   \* shutdown_
          cancel      \* the flag push() is given

queueVars == <<queue, shutdown, cancel>>

TypeOK ==
    /\ queue \in Seq(Items)
    /\ shutdown \in BOOLEAN
    /\ cancel \in BOOLEAN

Init ==
    /\ queue = <<>>
    /\ shutdown = FALSE
    /\ cancel = FALSE

\* push() goes around its wait loop while this holds.
Full == Len(queue) >= Capacity

\* A push that is refused leaves the item with the caller, which drops it.
Refused == shutdown \/ cancel

\* PushResult::Pushed.
Push(x) ==
    /\ ~Full
    /\ ~Refused
    /\ queue' = Append(queue, x)
    /\ UNCHANGED <<shutdown, cancel>>

\* tryPop() that returns true.
Pop ==
    /\ queue # <<>>
    /\ queue' = Tail(queue)
    /\ UNCHANGED <<shutdown, cancel>>

Shutdown ==
    /\ shutdown' = TRUE
    /\ UNCHANGED <<queue, cancel>>

\* The owner of the flag requests a stop; nothing ever clears it again.
Cancel ==
    /\ cancel' = TRUE
    /\ UNCHANGED <<queue, shutdown>>

Next ==
    \/ \E x \in Items : Push(x)
    \/ Pop
    \/ Shutdown
    \/ Cancel

Spec == Init /\ [][Next]_queueVars

-----------------------------------------------------------------------------

\* The queue never holds more than its capacity: the bound push() waits for.
Bounded == Len(queue) <= Capacity
=============================================================================
