--------------------------- MODULE BackendSupervisor ---------------------------
(***************************************************************************)
(* The GUI's BackendSupervisor: it keeps one backend process running, asks  *)
(* it for scans, and gives up on one that is silent, talks garbage or never *)
(* becomes ready.  Everything here runs on the GUI's event loop, so each    *)
(* slot is one step; what races is the process, three timers and the user.  *)
(*                                                                         *)
(* Time is counted in periods of the health timer (one second).  Tick lets  *)
(* a period pass; a timer that has come down to 0 is due and may fire at    *)
(* once or later, as the event loop gets to it.                             *)
(*                                                                         *)
(* The process is the environment: it may exit at any moment, and only one  *)
(* that has been killed has to.  terminate() posts a close message, which   *)
(* this console program may ignore.                                         *)
(***************************************************************************)
EXTENDS Integers, Sequences

CONSTANTS MaxAttempts,     \* SupervisorOptions, times in periods of the health timer
          BackoffMs, KillGraceMs, KillWaitMs, ReadyTimeoutMs, HealthTimeoutMs,
          MalformedLimit,
          MayHang,         \* a process may survive kill()
          MayNotStart,     \* start() may fail
          MayGarble        \* a process may write lines that cannot be decoded

ASSUME SupervisorAssumption ==
    /\ MaxAttempts \in Nat /\ MalformedLimit \in Nat
    /\ ReadyTimeoutMs \in Nat /\ HealthTimeoutMs \in Nat
    /\ BackoffMs \in Seq(Nat) /\ BackoffMs # <<>>
    /\ KillGraceMs \in Nat /\ KillWaitMs \in Nat
    /\ {MayHang, MayNotStart, MayGarble} \subseteq BOOLEAN

VARIABLES
    process,             \* none, fresh (no READY yet) or greeted
    doomed,              \* kill() has taken effect, the exit is on its way
    sinceSpawn,          \* now - spawnMs_, and ...
    sinceEvent,          \* ... now - lastHealthMs_, as far as a timeout can tell
    procState, attempts, escStage, killExhausted, healthMisses, malformed,
    explicitShutdown, backendReady, scanning,
    escTimer, restartTimer, healthTimer,   \* periods left, or Off
    told,                \* history: this process has been told to terminate
    spawns               \* history: processes started since the budget was renewed

world   == <<process, doomed, sinceSpawn, sinceEvent>>
verdict == <<procState, attempts>>
kill    == <<escStage, killExhausted, escTimer, told>>
service == <<backendReady, scanning>>
vars == <<world, verdict, kill, service, healthMisses, malformed, explicitShutdown,
          restartTimer, healthTimer, spawns>>

Off == -1

TypeOK ==
    /\ process \in {"none", "fresh", "greeted"}
    /\ procState \in {"Down", "Starting", "Ready", "Failed"}
    /\ doomed \in BOOLEAN /\ killExhausted \in BOOLEAN /\ told \in BOOLEAN
    /\ explicitShutdown \in BOOLEAN /\ backendReady \in BOOLEAN /\ scanning \in BOOLEAN
    /\ sinceSpawn \in 0..ReadyTimeoutMs + 1
    /\ sinceEvent \in 0..HealthTimeoutMs + 1
    /\ attempts \in 0..MaxAttempts
    /\ escStage \in 0..1
    /\ healthMisses \in 0..2
    /\ malformed \in 0..MalformedLimit + 1
    /\ escTimer \in Nat \cup {Off} /\ restartTimer \in Nat \cup {Off}
    /\ healthTimer \in {Off, 0, 1}
    /\ spawns \in Nat

Init ==
    /\ process = "none" /\ doomed = FALSE /\ sinceSpawn = 0 /\ sinceEvent = 0
    /\ procState = "Down" /\ attempts = 0
    /\ escStage = 0 /\ killExhausted = FALSE /\ told = FALSE
    /\ healthMisses = 0 /\ malformed = 0
    /\ explicitShutdown = FALSE /\ backendReady = FALSE /\ scanning = FALSE
    /\ escTimer = Off /\ restartTimer = Off /\ healthTimer = Off
    /\ spawns = 0

ProcessAlive == process # "none"

-----------------------------------------------------------------------------
(* What the slots are made of.                                               *)

\* The wait before the next restart, after so many.
Backoff(tries) ==
    BackoffMs[IF tries < Len(BackoffMs) THEN tries + 1 ELSE Len(BackoffMs)]

\* Mutant of ScheduleRestart: the timer is not started.
ScheduleUntimed(tries, pending) ==
    /\ procState' = IF tries >= MaxAttempts THEN "Failed" ELSE "Down"
    /\ attempts' = IF tries >= MaxAttempts THEN tries ELSE tries + 1
    /\ restartTimer' = pending

\* scheduleRestart(): one more restart, or FAILED.  pending is the restart
\* timer as it stands, which only a new wait replaces.
ScheduleRestart(tries, pending) ==
    IF tries >= MaxAttempts
    THEN /\ procState' = "Failed"
         /\ attempts' = tries
         /\ restartTimer' = pending
    ELSE /\ procState' = "Down"
         /\ attempts' = tries + 1
         /\ restartTimer' = Backoff(tries)

\* terminate(), with the grace before kill().
Terminate ==
    /\ told' = TRUE
    /\ escTimer' = KillGraceMs

\* enterFailed() with a process that is still there.
EnterFailed == IF killExhausted THEN UNCHANGED <<told, escTimer>> ELSE Terminate

\* kill().
Kill ==
    doomed' \in IF MayHang THEN {doomed, TRUE} ELSE {TRUE}

\* The old process, if any, is gone; the one that is started is not ready.
ResetForSpawn ==
    /\ escStage' = 0 /\ killExhausted' = FALSE /\ told' = FALSE
    /\ healthMisses' = 0 /\ malformed' = 0
    /\ sinceSpawn' = 0 /\ sinceEvent' = 0
    /\ healthTimer' = IF healthTimer = Off THEN 1 ELSE healthTimer
    /\ UNCHANGED <<doomed, explicitShutdown>>

\* The process starts, or start() reports the error before it returns.
Launch(tries, pending) ==
    \/ /\ process' = "fresh"
       /\ procState' = "Starting"
       /\ attempts' = tries
       /\ restartTimer' = pending
       /\ UNCHANGED service
    \/ /\ MayNotStart
       /\ ScheduleRestart(tries, pending)
       /\ backendReady' = FALSE /\ scanning' = FALSE
       /\ UNCHANGED process

\* Mutant of Spawn: start() is taken to succeed always.
SpawnUnwatched(tries, pending, started) ==
    /\ ~ProcessAlive
    /\ escTimer' = Off
    /\ spawns' = started + 1
    /\ ResetForSpawn
    /\ process' \in {"none", "fresh"}
    /\ procState' = "Starting"
    /\ attempts' = tries
    /\ restartTimer' = pending
    /\ UNCHANGED service

\* spawn(), which does nothing while a process is alive.
Spawn(tries, pending, started) ==
    /\ ~ProcessAlive
    /\ escTimer' = Off
    /\ spawns' = started + 1
    /\ ResetForSpawn
    /\ Launch(tries, pending)

\* terminateAndRespawn().  The failure it reports ends the GUI's scan.
TerminateAndRespawn ==
    /\ backendReady' = FALSE /\ scanning' = FALSE
    /\ escStage' = 0
    /\ Terminate

-----------------------------------------------------------------------------
(* The process.                                                              *)

\* Mutant of Exited: the dead backend still counts as ready.
ExitedReady ==
    /\ scanning' = FALSE
    /\ ScheduleRestart(attempts, restartTimer)
    /\ UNCHANGED backendReady

\* onFinished(), disconnected by a shutdown.
Exited ==
    /\ backendReady' = FALSE /\ scanning' = FALSE
    /\ ScheduleRestart(attempts, restartTimer)

\* The process exits, by itself, told to, or killed.
Exit ==
    /\ ProcessAlive
    /\ process' = "none"
    /\ doomed' = FALSE
    /\ told' = FALSE
    /\ IF explicitShutdown THEN UNCHANGED <<verdict, service, restartTimer>> ELSE Exited
    /\ UNCHANGED <<sinceSpawn, sinceEvent, escStage, killExhausted, escTimer, healthMisses,
                   malformed, explicitShutdown, healthTimer, spawns>>

\* handleLine() with a line of this process, in order: a sign of life.
Line ==
    /\ ProcessAlive
    /\ ~explicitShutdown
    /\ sinceEvent' = 0
    /\ healthMisses' = 0
    /\ UNCHANGED <<doomed, sinceSpawn, kill, malformed, explicitShutdown, restartTimer,
                   healthTimer>>

\* The answer to HELLO: HELLO_ACK and READY, once per process.
Ready ==
    /\ Line
    /\ process = "fresh"
    /\ process' = "greeted"
    /\ backendReady' = TRUE
    /\ attempts' = 0 /\ spawns' = 0
    /\ procState' = "Ready"
    /\ UNCHANGED scanning

\* Finished or Failed.
ScanOver ==
    /\ Line
    /\ process = "greeted"
    /\ scanning' = FALSE
    /\ UNCHANGED <<process, verdict, backendReady, spawns>>

\* Any other event; health events come before READY, too.
Event ==
    /\ Line
    /\ UNCHANGED <<process, verdict, service, spawns>>

\* handleMalformed().  Past the limit, the restart is scheduled while the
\* process lives on.
Malformed ==
    /\ MayGarble
    /\ ProcessAlive
    /\ ~explicitShutdown
    /\ malformed' = IF malformed > MalformedLimit THEN malformed ELSE malformed + 1
    /\ IF malformed' > MalformedLimit
       THEN /\ backendReady' = FALSE /\ scanning' = FALSE
            /\ ScheduleRestart(attempts, restartTimer)
            /\ IF attempts >= MaxAttempts THEN EnterFailed ELSE UNCHANGED <<told, escTimer>>
       ELSE UNCHANGED <<verdict, service, restartTimer, told, escTimer>>
    /\ UNCHANGED <<world, escStage, killExhausted, healthMisses, explicitShutdown, healthTimer,
                   spawns>>

-----------------------------------------------------------------------------
(* The timers.                                                               *)

\* onRestartTimeout().
RestartTimeout ==
    /\ restartTimer = 0
    /\ IF explicitShutdown \/ ProcessAlive
       THEN /\ restartTimer' = Off
            /\ UNCHANGED <<world, verdict, kill, service, healthMisses, malformed,
                           explicitShutdown, healthTimer, spawns>>
       ELSE Spawn(attempts, Off, spawns)

\* onEscalationTimeout() without a process: the restart is brought forward.
EscalationOver ==
    /\ escTimer = 0
    /\ ~ProcessAlive
    /\ IF explicitShutdown \/ procState = "Failed"
       THEN /\ escTimer' = Off
            /\ UNCHANGED <<world, verdict, escStage, killExhausted, told, service, healthMisses,
                           malformed, explicitShutdown, restartTimer, healthTimer, spawns>>
       ELSE Spawn(attempts, restartTimer, spawns)

\* onEscalationTimeout(): terminate() was in vain, and then kill() was.
EscalationTimeout ==
    /\ escTimer = 0
    /\ ProcessAlive
    /\ \/ /\ escStage = 0
          /\ escStage' = 1
          /\ Kill
          /\ escTimer' = KillWaitMs
          /\ UNCHANGED <<procState, killExhausted>>
       \/ /\ escStage = 1
          /\ killExhausted' = TRUE
          /\ procState' = "Failed"
          /\ escTimer' = Off
          /\ UNCHANGED <<doomed, escStage>>
    /\ UNCHANGED <<process, sinceSpawn, sinceEvent, attempts, told, service, healthMisses,
                   malformed, explicitShutdown, restartTimer, healthTimer, spawns>>

\* onHealthTick(): a start that takes too long, or the third silent period.
HealthTick ==
    /\ healthTimer = 0
    /\ healthTimer' = 1
    /\ LET watched == ProcessAlive /\ ~explicitShutdown
           late    == procState = "Starting" /\ sinceSpawn > ReadyTimeoutMs
           silent  == procState # "Starting" /\ backendReady /\ sinceEvent > HealthTimeoutMs
       IN  \/ /\ watched /\ (late \/ (silent /\ healthMisses = 2))
              /\ healthMisses' = IF silent THEN 0 ELSE healthMisses
              /\ TerminateAndRespawn
              /\ UNCHANGED killExhausted
           \/ /\ watched /\ silent /\ healthMisses < 2
              /\ healthMisses' = healthMisses + 1
              /\ UNCHANGED <<kill, service>>
           \/ /\ ~(watched /\ (late \/ silent))
              /\ UNCHANGED <<kill, service, healthMisses>>
    /\ UNCHANGED <<world, verdict, malformed, explicitShutdown, restartTimer, spawns>>

Sooner(timer) == IF timer > 0 THEN timer - 1 ELSE timer

\* A period passes.
Tick ==
    /\ escTimer' = Sooner(escTimer)
    /\ restartTimer' = Sooner(restartTimer)
    /\ healthTimer' = Sooner(healthTimer)
    /\ IF ProcessAlive
       THEN /\ sinceSpawn' = IF sinceSpawn > ReadyTimeoutMs THEN sinceSpawn ELSE sinceSpawn + 1
            /\ sinceEvent' = IF sinceEvent > HealthTimeoutMs THEN sinceEvent ELSE sinceEvent + 1
       ELSE UNCHANGED <<sinceSpawn, sinceEvent>>
    /\ UNCHANGED <<process, doomed, verdict, escStage, killExhausted, told, service, healthMisses,
                   malformed, explicitShutdown, spawns>>

-----------------------------------------------------------------------------
(* The GUI.                                                                  *)

\* ensureRunning(), whenever the window is shown.
EnsureRunning ==
    /\ ~explicitShutdown
    /\ \/ procState = "Down" /\ Spawn(attempts, restartTimer, spawns)
       \/ procState = "Failed" /\ Spawn(0, restartTimer, 0)

\* startScan(), which is refused without a ready backend.
StartScan ==
    /\ ~explicitShutdown
    /\ backendReady /\ ProcessAlive
    /\ ~scanning
    /\ scanning' = TRUE
    /\ UNCHANGED <<world, verdict, kill, backendReady, healthMisses, malformed, explicitShutdown,
                   restartTimer, healthTimer, spawns>>

\* restartForConfigChange(), which the window asks for only between scans.
RestartForConfigChange ==
    /\ ~explicitShutdown
    /\ ~scanning
    /\ \/ /\ ProcessAlive
          /\ Kill
          /\ attempts' = 0 /\ spawns' = 0
          /\ UNCHANGED <<process, sinceSpawn, sinceEvent, procState, kill, service, healthMisses,
                         malformed, explicitShutdown, restartTimer, healthTimer>>
       \/ Spawn(0, restartTimer, 0)

\* shutdown(), once; the process has a while to leave, and Exit may be that.
Shutdown ==
    /\ ~explicitShutdown
    /\ explicitShutdown' = TRUE
    /\ restartTimer' = Off
    /\ escTimer' = Off
    /\ UNCHANGED <<world, verdict, escStage, killExhausted, told, service, healthMisses, malformed,
                   healthTimer, spawns>>

Process == Exit \/ Ready \/ ScanOver \/ Event \/ Malformed
Timers  == RestartTimeout \/ EscalationOver \/ EscalationTimeout \/ HealthTick
User    == EnsureRunning \/ StartScan \/ RestartForConfigChange \/ Shutdown

Next == Process \/ Timers \/ Tick \/ User

Spec == Init /\ [][Next]_vars

\* Time passes, the event loop gets to every timer that is due, and a process
\* that was killed exits.
FairSpec ==
    /\ Spec
    /\ WF_vars(Tick)
    /\ WF_vars(RestartTimeout) /\ WF_vars(EscalationOver) /\ WF_vars(EscalationTimeout)
    /\ WF_vars(HealthTick)
    /\ WF_vars(doomed /\ Exit)

-----------------------------------------------------------------------------

\* A backend counts as ready only while its process lives and has answered
\* HELLO: no command goes to a fresh process as if it were the old one.
ReadyIsProven ==
    ~explicitShutdown /\ backendReady => process = "greeted"

\* A scan the GUI waits for is always in the hands of a ready backend: whatever
\* takes the backend away also ends the scan, so no scan is waited for in vain.
ScanHasBackend ==
    ~explicitShutdown /\ scanning => backendReady

\* What the window does is in the hands of the backend that runs now.
Custody == ReadyIsProven /\ ScanHasBackend

\* Without a process, a restart is on its way or the supervisor has FAILED,
\* however the process went and even if it never came up.
NeverStranded ==
    healthTimer # Off /\ ~explicitShutdown /\ ~ProcessAlive =>
        procState = "Failed" \/ (procState = "Down" /\ restartTimer # Off)

\* An armed escalation is meant for the process that is running: a fresh
\* backend is never killed for the sins of an earlier one.
EscalationOwned ==
    escTimer # Off /\ ProcessAlive => told

\* FAILED never leaves a live process to itself, a second writer of the index:
\* it is being escalated, or kill() has been tried in vain.
FailedIsEscalated ==
    procState = "Failed" /\ ProcessAlive /\ ~explicitShutdown => escTimer # Off \/ killExhausted

\* The supervisor never drops what it has to look after: a restart that is due,
\* an escalation of the process that runs and of no other, a wedged process.
NeverAlone == NeverStranded /\ EscalationOwned /\ FailedIsEscalated

\* A backend that hung after READY is gone in the end, or FAILED is reported.
HungReplaced ==
    procState = "Ready" /\ ~backendReady ~> ~ProcessAlive \/ procState # "Ready" \/ explicitShutdown

\* A backend that is gone is replaced, or FAILED is reported, unless the user
\* renews budget and wait over and over.
Recovers ==
    <>[][~RestartForConfigChange]_vars =>
        (healthTimer # Off /\ ~ProcessAlive ~>
            ProcessAlive \/ procState = "Failed" \/ explicitShutdown)

\* A backend that hangs or goes is replaced in the end, or given up aloud.
BackendReturns == HungReplaced /\ Recovers

\* A backend told to terminate is gone in the end, or FAILED is reported:
\* terminate(), a grace period, kill(), and the exit is verified.
EscalationEnds ==
    told ~> ~ProcessAlive \/ procState = "Failed" \/ explicitShutdown

\* Between two proofs of life, or two resets of the budget by the user, the
\* backend is started once and restarted at most MaxAttempts times, as the header says.  A
\* restart timer left armed breaks it: TLC finds that with BackendSupervisor_startup.cfg's
\* constants.
BoundedRestart == spawns <= MaxAttempts + 1
=============================================================================
