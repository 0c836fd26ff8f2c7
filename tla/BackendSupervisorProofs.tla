------------------------ MODULE BackendSupervisorProofs ------------------------
(***************************************************************************)
(* The safety properties of BackendSupervisor, for any timeouts, backoffs   *)
(* and limits.  Together with the types they are inductive: no property     *)
(* here speaks about time, so a timer may fire at any moment.               *)
(***************************************************************************)
EXTENDS BackendSupervisor, TLAPS

Safety ==
    /\ ReadyIsProven
    /\ ScanHasBackend
    /\ NeverStranded
    /\ EscalationOwned
    /\ FailedIsEscalated

-----------------------------------------------------------------------------
(* Lemmas about the parts of the slots.                                      *)

\* There is a wait for every number of restarts.
LEMMA BackoffType ==
  ASSUME NEW tries \in Nat
  PROVE  Backoff(tries) \in Nat
BY SupervisorAssumption DEF Backoff

\* A timer that is off stays off, one that runs never comes to be off.
LEMMA SoonerType ==
  ASSUME NEW timer \in Nat \cup {Off}
  PROVE  /\ Sooner(timer) \in Nat \cup {Off}
         /\ Sooner(timer) = Off <=> timer = Off
BY DEF Sooner, Off

\* After scheduleRestart() a restart is on its way, or the state is FAILED.
LEMMA ScheduleFacts ==
  ASSUME NEW tries \in 0..MaxAttempts, NEW pending \in Nat \cup {Off},
         ScheduleRestart(tries, pending)
  PROVE  /\ attempts' \in 0..MaxAttempts
         /\ restartTimer' \in Nat \cup {Off}
         /\ \/ procState' = "Failed" /\ tries >= MaxAttempts
            \/ procState' = "Down" /\ restartTimer' # Off
<1>1. MaxAttempts \in Nat
  BY SupervisorAssumption
<1>2. Backoff(tries) \in Nat
  BY <1>1, BackoffType
<1>. QED
  BY <1>1, <1>2 DEF ScheduleRestart, Off

\* A spawn resets every counter of the earlier process.
LEMMA ResetType ==
  ASSUME TypeOK, ResetForSpawn
  PROVE  /\ doomed' \in BOOLEAN /\ killExhausted' \in BOOLEAN /\ told' \in BOOLEAN
         /\ explicitShutdown' \in BOOLEAN
         /\ sinceSpawn' \in 0..ReadyTimeoutMs + 1
         /\ sinceEvent' \in 0..HealthTimeoutMs + 1
         /\ escStage' \in 0..1
         /\ healthMisses' \in 0..2
         /\ malformed' \in 0..MalformedLimit + 1
         /\ healthTimer' \in {Off, 0, 1}
<1>1. killExhausted' \in BOOLEAN /\ told' \in BOOLEAN
  BY DEF ResetForSpawn
<1>2. doomed' \in BOOLEAN /\ explicitShutdown' \in BOOLEAN
  BY DEF ResetForSpawn, TypeOK
<1>3. /\ escStage' \in 0..1 /\ healthMisses' \in 0..2
      /\ malformed' \in 0..MalformedLimit + 1
      /\ sinceSpawn' \in 0..ReadyTimeoutMs + 1 /\ sinceEvent' \in 0..HealthTimeoutMs + 1
  BY SupervisorAssumption DEF ResetForSpawn
<1>4. healthTimer' \in {Off, 0, 1}
  BY DEF ResetForSpawn, TypeOK
<1>. QED
  BY <1>1, <1>2, <1>3, <1>4

\* What a spawn leaves behind, whether the process starts or not.
LEMMA SpawnFacts ==
  ASSUME TypeOK, NEW tries \in 0..MaxAttempts, NEW pending \in Nat \cup {Off},
         NEW started \in Nat, Spawn(tries, pending, started)
  PROVE  /\ TypeOK'
         /\ ~ProcessAlive
         /\ explicitShutdown' = explicitShutdown
         /\ escTimer' = Off
         /\ \/ process' = "fresh" /\ procState' = "Starting" /\ UNCHANGED service
            \/ /\ process' = "none" /\ ~backendReady' /\ ~scanning'
               /\ procState' = "Failed" \/ (procState' = "Down" /\ restartTimer' # Off)
<1>1. /\ ~ProcessAlive
      /\ escTimer' = Off /\ spawns' = started + 1
      /\ ResetForSpawn
      /\ Launch(tries, pending)
  BY DEF Spawn
<1>2. explicitShutdown' = explicitShutdown
  BY <1>1 DEF ResetForSpawn
<1>3. escTimer' \in Nat \cup {Off} /\ spawns' \in Nat
  BY <1>1
<1>4. CASE /\ process' = "fresh" /\ procState' = "Starting" /\ attempts' = tries
           /\ restartTimer' = pending /\ UNCHANGED service
  <2>1. backendReady' \in BOOLEAN /\ scanning' \in BOOLEAN
    BY <1>4 DEF service, TypeOK
  <2>2. TypeOK'
    BY <1>1, <1>3, <1>4, <2>1, ResetType DEF TypeOK
  <2>. QED
    BY <1>1, <1>2, <1>4, <2>2
<1>5. CASE /\ ScheduleRestart(tries, pending)
           /\ backendReady' = FALSE /\ scanning' = FALSE
           /\ UNCHANGED process
  <2>1. /\ attempts' \in 0..MaxAttempts
        /\ restartTimer' \in Nat \cup {Off}
        /\ procState' = "Failed" \/ (procState' = "Down" /\ restartTimer' # Off)
    BY <1>5, ScheduleFacts
  <2>2. process' = "none"
    BY <1>1, <1>5 DEF ProcessAlive
  <2>3. TypeOK'
    BY <1>1, <1>3, <1>5, <2>1, <2>2, ResetType DEF TypeOK
  <2>. QED
    BY <1>1, <1>2, <1>5, <2>1, <2>2, <2>3
<1>. QED
  BY <1>1, <1>4, <1>5 DEF Launch

\* A spawn keeps the properties: nothing was ready before it.
LEMMA SpawnSafe ==
  ASSUME TypeOK, Safety, ~explicitShutdown,
         NEW tries \in 0..MaxAttempts, NEW pending \in Nat \cup {Off},
         NEW started \in Nat, Spawn(tries, pending, started)
  PROVE  TypeOK' /\ Safety'
<1>1. /\ TypeOK' /\ ~ProcessAlive /\ explicitShutdown' = explicitShutdown /\ escTimer' = Off
      /\ \/ process' = "fresh" /\ procState' = "Starting" /\ UNCHANGED service
         \/ /\ process' = "none" /\ ~backendReady' /\ ~scanning'
            /\ procState' = "Failed" \/ (procState' = "Down" /\ restartTimer' # Off)
  BY SpawnFacts
<1>2. ~backendReady /\ ~scanning
  BY <1>1 DEF Safety, ReadyIsProven, ScanHasBackend, ProcessAlive
<1>3. ReadyIsProven' /\ ScanHasBackend'
  BY <1>1, <1>2 DEF ReadyIsProven, ScanHasBackend, service
<1>4. NeverStranded'
  BY <1>1 DEF NeverStranded, ProcessAlive
<1>5. EscalationOwned' /\ FailedIsEscalated'
  BY <1>1 DEF EscalationOwned, FailedIsEscalated, ProcessAlive
<1>. QED
  BY <1>1, <1>3, <1>4, <1>5 DEF Safety

-----------------------------------------------------------------------------
(* Types and safety, initially and after every step.                         *)

\* The supervisor starts without a process, a timer or a scan.
LEMMA InitSafe == Init => TypeOK /\ Safety
<1> SUFFICES ASSUME Init PROVE TypeOK /\ Safety
  OBVIOUS
<1>1. TypeOK
  <2>1. /\ sinceSpawn \in 0..ReadyTimeoutMs + 1 /\ sinceEvent \in 0..HealthTimeoutMs + 1
        /\ attempts \in 0..MaxAttempts /\ malformed \in 0..MalformedLimit + 1
        /\ escStage \in 0..1 /\ healthMisses \in 0..2 /\ spawns \in Nat
    BY SupervisorAssumption DEF Init
  <2>2. /\ escTimer \in Nat \cup {Off} /\ restartTimer \in Nat \cup {Off}
        /\ healthTimer \in {Off, 0, 1}
    BY DEF Init
  <2>3. /\ doomed \in BOOLEAN /\ killExhausted \in BOOLEAN /\ told \in BOOLEAN
        /\ explicitShutdown \in BOOLEAN /\ backendReady \in BOOLEAN /\ scanning \in BOOLEAN
        /\ process \in {"none", "fresh", "greeted"}
        /\ procState \in {"Down", "Starting", "Ready", "Failed"}
    BY DEF Init
  <2>. QED
    BY <2>1, <2>2, <2>3 DEF TypeOK
<1>2. Safety
  BY DEF Init, Safety, ReadyIsProven, ScanHasBackend, NeverStranded, EscalationOwned,
         FailedIsEscalated, ProcessAlive, Off
<1>. QED
  BY <1>1, <1>2

\* An exit schedules a restart, or follows a shutdown.
LEMMA ExitSafe ==
  ASSUME TypeOK, Safety, Exit
  PROVE  TypeOK' /\ Safety'
<1>1. /\ process' = "none" /\ doomed' = FALSE /\ told' = FALSE
      /\ UNCHANGED <<sinceSpawn, sinceEvent, escStage, killExhausted, escTimer, healthMisses,
                     malformed, explicitShutdown, healthTimer, spawns>>
  BY DEF Exit
<1>2. CASE explicitShutdown
  <2>1. UNCHANGED <<procState, attempts, backendReady, scanning, restartTimer>>
    BY <1>2 DEF Exit, verdict, service
  <2>2. TypeOK'
    <3>1. process' \in {"none", "fresh", "greeted"} /\ doomed' \in BOOLEAN /\ told' \in BOOLEAN
      BY <1>1
    <3>. QED
      BY <1>1, <2>1, <3>1 DEF TypeOK
  <2>3. Safety'
    BY <1>1, <1>2 DEF Safety, ReadyIsProven, ScanHasBackend, NeverStranded, EscalationOwned,
                      FailedIsEscalated, ProcessAlive
  <2>. QED
    BY <2>2, <2>3
<1>3. CASE ~explicitShutdown
  <2>1. backendReady' = FALSE /\ scanning' = FALSE /\ ScheduleRestart(attempts, restartTimer)
    BY <1>3 DEF Exit, Exited
  <2>2. /\ attempts' \in 0..MaxAttempts
        /\ restartTimer' \in Nat \cup {Off}
        /\ procState' = "Failed" \/ (procState' = "Down" /\ restartTimer' # Off)
    BY <2>1, ScheduleFacts DEF TypeOK
  <2>3. TypeOK'
    BY <1>1, <2>1, <2>2 DEF TypeOK
  <2>4. Safety'
    BY <1>1, <2>1, <2>2 DEF Safety, ReadyIsProven, ScanHasBackend, NeverStranded,
                            EscalationOwned, FailedIsEscalated, ProcessAlive
  <2>. QED
    BY <2>3, <2>4
<1>. QED
  BY <1>2, <1>3 DEF TypeOK

\* Lines come from a living process, and READY makes it greeted.
LEMMA LineSafe ==
  ASSUME TypeOK, Safety, Ready \/ ScanOver \/ Event
  PROVE  TypeOK' /\ Safety'
<1>1. /\ ProcessAlive /\ ~explicitShutdown
      /\ sinceEvent' = 0 /\ healthMisses' = 0
      /\ UNCHANGED <<doomed, sinceSpawn, kill, malformed, explicitShutdown, restartTimer,
                     healthTimer>>
  BY DEF Ready, ScanOver, Event, Line
<1>2. sinceEvent' \in 0..HealthTimeoutMs + 1 /\ healthMisses' \in 0..2
  BY <1>1, SupervisorAssumption
<1>3. CASE Ready
  <2>1. /\ process' = "greeted" /\ backendReady' = TRUE /\ scanning' = scanning
        /\ procState' = "Ready"
    BY <1>3 DEF Ready
  <2>2. attempts' \in 0..MaxAttempts /\ spawns' \in Nat
    BY <1>3, SupervisorAssumption DEF Ready
  <2>3. TypeOK'
    BY <1>1, <1>2, <2>1, <2>2 DEF TypeOK, kill
  <2>4. Safety'
    BY <1>1, <2>1 DEF Safety, ReadyIsProven, ScanHasBackend, NeverStranded, EscalationOwned,
                      FailedIsEscalated, ProcessAlive, kill
  <2>. QED
    BY <2>3, <2>4
<1>4. CASE ScanOver
  <2>1. scanning' = FALSE /\ UNCHANGED <<process, procState, attempts, backendReady, spawns>>
    BY <1>4 DEF ScanOver, verdict
  <2>2. TypeOK'
    <3>1. scanning' \in BOOLEAN /\ backendReady' \in BOOLEAN
      BY <2>1 DEF TypeOK
    <3>2. UNCHANGED <<doomed, sinceSpawn, escStage, killExhausted, escTimer, told, malformed,
                      explicitShutdown, restartTimer, healthTimer>>
      BY <1>1 DEF kill
    <3>. QED
      BY <1>2, <2>1, <3>1, <3>2 DEF TypeOK
  <2>3. Safety'
    BY <1>1, <2>1 DEF Safety, ReadyIsProven, ScanHasBackend, NeverStranded, EscalationOwned,
                      FailedIsEscalated, ProcessAlive, kill, verdict
  <2>. QED
    BY <2>2, <2>3
<1>5. CASE Event
  <2>1. UNCHANGED <<process, verdict, service, spawns>>
    BY <1>5 DEF Event
  <2>2. TypeOK'
    BY <1>1, <1>2, <2>1 DEF TypeOK, kill, verdict, service
  <2>3. Safety'
    BY <1>1, <2>1 DEF Safety, ReadyIsProven, ScanHasBackend, NeverStranded, EscalationOwned,
                      FailedIsEscalated, ProcessAlive, kill, verdict, service
  <2>. QED
    BY <2>2, <2>3
<1>. QED
  BY <1>3, <1>4, <1>5

\* Garbage past the limit takes the scan away and schedules a restart.
LEMMA MalformedSafe ==
  ASSUME TypeOK, Safety, Malformed
  PROVE  TypeOK' /\ Safety'
<1>1. /\ ProcessAlive /\ ~explicitShutdown
      /\ UNCHANGED <<world, escStage, killExhausted, healthMisses, explicitShutdown, healthTimer,
                     spawns>>
  BY DEF Malformed
<1>2. malformed' \in 0..MalformedLimit + 1
  BY SupervisorAssumption DEF Malformed, TypeOK
<1>3. CASE malformed' > MalformedLimit
  <2>1. backendReady' = FALSE /\ scanning' = FALSE /\ ScheduleRestart(attempts, restartTimer)
    BY <1>3 DEF Malformed
  <2>2. /\ attempts' \in 0..MaxAttempts
        /\ restartTimer' \in Nat \cup {Off}
        /\ \/ procState' = "Failed" /\ attempts >= MaxAttempts
           \/ procState' = "Down"
    BY <2>1, ScheduleFacts DEF TypeOK
  <2>3. CASE attempts >= MaxAttempts /\ ~killExhausted
    <3>1. told' = TRUE /\ escTimer' = KillGraceMs
      BY <1>3, <2>3 DEF Malformed, EnterFailed, Terminate
    <3>2. escTimer' \in Nat /\ escTimer' # Off
      BY <3>1, SupervisorAssumption DEF Off
    <3>3. TypeOK'
      BY <1>1, <1>2, <2>1, <2>2, <3>1, <3>2 DEF TypeOK, world
    <3>4. Safety'
      BY <1>1, <2>1, <3>1, <3>2 DEF Safety, ReadyIsProven, ScanHasBackend, NeverStranded,
                                    EscalationOwned, FailedIsEscalated, ProcessAlive, world
    <3>. QED
      BY <3>3, <3>4
  <2>4. CASE ~(attempts >= MaxAttempts /\ ~killExhausted)
    <3>1. UNCHANGED <<told, escTimer>>
      BY <1>3, <2>4 DEF Malformed, EnterFailed
    <3>2. TypeOK'
      BY <1>1, <1>2, <2>1, <2>2, <3>1 DEF TypeOK, world
    <3>3. Safety'
      BY <1>1, <2>1, <2>2, <2>4, <3>1
         DEF Safety, ReadyIsProven, ScanHasBackend, NeverStranded,
             EscalationOwned, FailedIsEscalated, ProcessAlive, world
    <3>. QED
      BY <3>2, <3>3
  <2>. QED
    BY <2>3, <2>4
<1>4. CASE ~(malformed' > MalformedLimit)
  <2>1. UNCHANGED <<verdict, service, restartTimer, told, escTimer>>
    BY <1>4 DEF Malformed
  <2>2. TypeOK'
    BY <1>1, <1>2, <2>1 DEF TypeOK, world, verdict, service
  <2>3. Safety'
    BY <1>1, <2>1 DEF Safety, ReadyIsProven, ScanHasBackend, NeverStranded, EscalationOwned,
                      FailedIsEscalated, ProcessAlive, world, verdict, service
  <2>. QED
    BY <2>2, <2>3
<1>. QED
  BY <1>3, <1>4

\* The restart timer spawns only without a process.
LEMMA RestartSafe ==
  ASSUME TypeOK, Safety, RestartTimeout
  PROVE  TypeOK' /\ Safety'
<1>1. CASE explicitShutdown \/ ProcessAlive
  <2>1. /\ restartTimer' = Off
        /\ UNCHANGED <<world, verdict, kill, service, healthMisses, malformed, explicitShutdown,
                       healthTimer, spawns>>
    BY <1>1 DEF RestartTimeout
  <2>2. TypeOK'
    BY <2>1 DEF TypeOK, world, verdict, kill, service
  <2>3. Safety'
    BY <1>1, <2>1 DEF Safety, ReadyIsProven, ScanHasBackend, NeverStranded, EscalationOwned,
                      FailedIsEscalated, ProcessAlive, world, verdict, kill, service
  <2>. QED
    BY <2>2, <2>3
<1>2. CASE ~(explicitShutdown \/ ProcessAlive)
  <2>1. Spawn(attempts, Off, spawns)
    BY <1>2 DEF RestartTimeout
  <2>2. attempts \in 0..MaxAttempts /\ spawns \in Nat /\ Off \in Nat \cup {Off}
    BY DEF TypeOK
  <2>. QED
    BY <1>2, <2>1, <2>2, SpawnSafe
<1>. QED
  BY <1>1, <1>2

\* An escalation whose process is gone spawns, unless the state is FAILED.
LEMMA EscalationOverSafe ==
  ASSUME TypeOK, Safety, EscalationOver
  PROVE  TypeOK' /\ Safety'
<1>1. CASE explicitShutdown \/ procState = "Failed"
  <2>1. /\ ~ProcessAlive
        /\ escTimer' = Off
        /\ UNCHANGED <<world, verdict, escStage, killExhausted, told, service, healthMisses,
                       malformed, explicitShutdown, restartTimer, healthTimer, spawns>>
    BY <1>1 DEF EscalationOver
  <2>2. TypeOK'
    BY <2>1 DEF TypeOK, world, verdict, service
  <2>3. Safety'
    BY <1>1, <2>1 DEF Safety, ReadyIsProven, ScanHasBackend, NeverStranded, EscalationOwned,
                      FailedIsEscalated, ProcessAlive, world, verdict, service
  <2>. QED
    BY <2>2, <2>3
<1>2. CASE ~(explicitShutdown \/ procState = "Failed")
  <2>1. Spawn(attempts, restartTimer, spawns)
    BY <1>2 DEF EscalationOver
  <2>2. attempts \in 0..MaxAttempts /\ spawns \in Nat /\ restartTimer \in Nat \cup {Off}
    BY DEF TypeOK
  <2>. QED
    BY <1>2, <2>1, <2>2, SpawnSafe
<1>. QED
  BY <1>1, <1>2

\* An escalation of a living process goes on, or ends in FAILED.
LEMMA EscalationSafe ==
  ASSUME TypeOK, Safety, EscalationTimeout
  PROVE  TypeOK' /\ Safety'
<1>1. /\ ProcessAlive /\ escTimer = 0
      /\ UNCHANGED <<process, sinceSpawn, sinceEvent, attempts, told, service, healthMisses,
                     malformed, explicitShutdown, restartTimer, healthTimer, spawns>>
  BY DEF EscalationTimeout
<1>2. told
  BY <1>1 DEF Safety, EscalationOwned, Off
<1>3. CASE /\ escStage = 0 /\ escStage' = 1 /\ Kill /\ escTimer' = KillWaitMs
           /\ UNCHANGED <<procState, killExhausted>>
  <2>1. escTimer' \in Nat /\ escTimer' # Off
    BY <1>3, SupervisorAssumption DEF Off
  <2>2. doomed' \in BOOLEAN
    BY <1>3 DEF Kill, TypeOK
  <2>3. escStage' \in 0..1
    BY <1>3
  <2>4. TypeOK'
    BY <1>1, <1>3, <2>1, <2>2, <2>3 DEF TypeOK, service
  <2>5. Safety'
    BY <1>1, <1>2, <1>3, <2>1 DEF Safety, ReadyIsProven, ScanHasBackend, NeverStranded,
                                  EscalationOwned, FailedIsEscalated, ProcessAlive, service
  <2>. QED
    BY <2>4, <2>5
<1>4. CASE /\ escStage = 1 /\ killExhausted' = TRUE /\ procState' = "Failed" /\ escTimer' = Off
           /\ UNCHANGED <<doomed, escStage>>
  <2>1. TypeOK'
    BY <1>1, <1>4 DEF TypeOK, service
  <2>2. Safety'
    BY <1>1, <1>4 DEF Safety, ReadyIsProven, ScanHasBackend, NeverStranded, EscalationOwned,
                      FailedIsEscalated, ProcessAlive, service
  <2>. QED
    BY <2>1, <2>2
<1>. QED
  BY <1>3, <1>4 DEF EscalationTimeout

\* A health tick gives up on the process only together with its scan.
LEMMA HealthSafe ==
  ASSUME TypeOK, Safety, HealthTick
  PROVE  TypeOK' /\ Safety'
<1>1. /\ healthTimer = 0 /\ healthTimer' = 1
      /\ UNCHANGED <<world, verdict, malformed, explicitShutdown, restartTimer, spawns>>
  BY DEF HealthTick
<1>2. healthTimer' # Off /\ healthTimer # Off /\ healthTimer' \in {Off, 0, 1}
  BY <1>1 DEF Off
<1>3. \/ /\ ProcessAlive
         /\ healthMisses' \in 0..2
         /\ TerminateAndRespawn
         /\ UNCHANGED killExhausted
      \/ /\ healthMisses' \in 0..2
         /\ UNCHANGED <<kill, service>>
  BY DEF HealthTick, TypeOK
<1>4. CASE /\ ProcessAlive /\ healthMisses' \in 0..2 /\ TerminateAndRespawn
           /\ UNCHANGED killExhausted
  <2>1. /\ backendReady' = FALSE /\ scanning' = FALSE /\ escStage' = 0
        /\ told' = TRUE /\ escTimer' = KillGraceMs
    BY <1>4 DEF TerminateAndRespawn, Terminate
  <2>2. escTimer' \in Nat /\ escTimer' # Off /\ escStage' \in 0..1
    BY <2>1, SupervisorAssumption DEF Off
  <2>3. TypeOK'
    BY <1>1, <1>2, <1>4, <2>1, <2>2 DEF TypeOK, world, verdict
  <2>4. Safety'
    BY <1>1, <1>2, <1>4, <2>1, <2>2 DEF Safety, ReadyIsProven, ScanHasBackend, NeverStranded,
                                    EscalationOwned, FailedIsEscalated, ProcessAlive, world,
                                    verdict
  <2>. QED
    BY <2>3, <2>4
<1>5. CASE healthMisses' \in 0..2 /\ UNCHANGED <<kill, service>>
  <2>1. TypeOK'
    BY <1>1, <1>2, <1>5 DEF TypeOK, world, verdict, kill, service
  <2>2. Safety'
    BY <1>1, <1>2, <1>5 DEF Safety, ReadyIsProven, ScanHasBackend, NeverStranded,
                            EscalationOwned, FailedIsEscalated, ProcessAlive, world, verdict,
                            kill, service
  <2>. QED
    BY <2>1, <2>2
<1>. QED
  BY <1>3, <1>4, <1>5

\* Time neither arms a timer nor disarms one.
LEMMA TickSafe ==
  ASSUME TypeOK, Safety, Tick
  PROVE  TypeOK' /\ Safety'
<1>1. UNCHANGED <<process, doomed, verdict, escStage, killExhausted, told, service, healthMisses,
                  malformed, explicitShutdown, spawns>>
  BY DEF Tick
<1>2. /\ escTimer' \in Nat \cup {Off} /\ (escTimer' = Off <=> escTimer = Off)
      /\ restartTimer' \in Nat \cup {Off} /\ (restartTimer' = Off <=> restartTimer = Off)
  BY SoonerType DEF Tick, TypeOK
<1>3. healthTimer' \in {Off, 0, 1} /\ (healthTimer' = Off <=> healthTimer = Off)
  BY DEF Tick, TypeOK, Sooner, Off
<1>4. sinceSpawn' \in 0..ReadyTimeoutMs + 1
  BY SupervisorAssumption DEF Tick, TypeOK
<1>5. sinceEvent' \in 0..HealthTimeoutMs + 1
  BY SupervisorAssumption DEF Tick, TypeOK
<1>6. TypeOK'
  BY <1>1, <1>2, <1>3, <1>4, <1>5 DEF TypeOK, verdict, service
<1>7. Safety'
  BY <1>1, <1>2, <1>3 DEF Safety, ReadyIsProven, ScanHasBackend, NeverStranded, EscalationOwned,
                          FailedIsEscalated, ProcessAlive, verdict, service
<1>. QED
  BY <1>6, <1>7

\* The GUI starts scans with a ready backend only, and spawns like the timers.
LEMMA UserSafe ==
  ASSUME TypeOK, Safety, User
  PROVE  TypeOK' /\ Safety'
<1>. USE DEF TypeOK
<1>1. 0 \in 0..MaxAttempts /\ 0 \in Nat
  BY SupervisorAssumption
<1>2. CASE EnsureRunning
  <2>1. ~explicitShutdown
    BY <1>2 DEF EnsureRunning
  <2>2. Spawn(attempts, restartTimer, spawns) \/ Spawn(0, restartTimer, 0)
    BY <1>2 DEF EnsureRunning
  <2>. QED
    BY <1>1, <2>1, <2>2, SpawnSafe
<1>3. CASE StartScan
  <2>1. /\ backendReady /\ scanning' = TRUE
        /\ UNCHANGED <<world, verdict, kill, backendReady, healthMisses, malformed,
                       explicitShutdown, restartTimer, healthTimer, spawns>>
    BY <1>3 DEF StartScan
  <2>2. TypeOK'
    BY <2>1 DEF world, verdict, kill
  <2>3. Safety'
    BY <2>1 DEF Safety, ReadyIsProven, ScanHasBackend, NeverStranded, EscalationOwned,
                FailedIsEscalated, ProcessAlive, world, verdict, kill
  <2>. QED
    BY <2>2, <2>3
<1>4. CASE RestartForConfigChange
  <2>1. CASE /\ ProcessAlive /\ Kill
             /\ attempts' = 0 /\ spawns' = 0
             /\ UNCHANGED <<process, sinceSpawn, sinceEvent, procState, kill, service,
                            healthMisses, malformed, explicitShutdown, restartTimer, healthTimer>>
    <3>1. doomed' \in BOOLEAN
      BY <2>1 DEF Kill
    <3>2. attempts' \in 0..MaxAttempts /\ spawns' \in Nat
      BY <1>1, <2>1
    <3>3. TypeOK'
      BY <2>1, <3>1, <3>2 DEF kill, service
    <3>4. Safety'
      BY <2>1 DEF Safety, ReadyIsProven, ScanHasBackend, NeverStranded, EscalationOwned,
                  FailedIsEscalated, ProcessAlive, kill, service
    <3>. QED
      BY <3>3, <3>4
  <2>2. CASE Spawn(0, restartTimer, 0)
    BY <1>1, <1>4, <2>2, SpawnSafe DEF RestartForConfigChange
  <2>. QED
    BY <1>4, <2>1, <2>2 DEF RestartForConfigChange
<1>5. CASE Shutdown
  <2>1. /\ explicitShutdown' = TRUE /\ restartTimer' = Off /\ escTimer' = Off
        /\ UNCHANGED <<world, verdict, escStage, killExhausted, told, service, healthMisses,
                       malformed, healthTimer, spawns>>
    BY <1>5 DEF Shutdown
  <2>2. TypeOK'
    BY <2>1 DEF world, verdict, service
  <2>3. Safety'
    BY <2>1 DEF Safety, ReadyIsProven, ScanHasBackend, NeverStranded, EscalationOwned,
                FailedIsEscalated
  <2>. QED
    BY <2>2, <2>3
<1>. QED
  BY <1>2, <1>3, <1>4, <1>5 DEF User

\* Every step keeps types and safety.
LEMMA StepSafe ==
  ASSUME TypeOK, Safety, [Next]_vars
  PROVE  TypeOK' /\ Safety'
<1>1. CASE Process
  BY <1>1, ExitSafe, LineSafe, MalformedSafe DEF Process
<1>2. CASE Timers
  BY <1>2, RestartSafe, EscalationOverSafe, EscalationSafe, HealthSafe DEF Timers
<1>3. CASE Tick
  BY <1>3, TickSafe
<1>4. CASE User
  BY <1>4, UserSafe
<1>5. CASE UNCHANGED vars
  <2>1. TypeOK'
    BY <1>5 DEF vars, TypeOK, world, verdict, kill, service
  <2>2. Safety'
    BY <1>5 DEF vars, world, verdict, kill, service, Safety, ReadyIsProven, ScanHasBackend,
                NeverStranded, EscalationOwned, FailedIsEscalated, ProcessAlive
  <2>. QED
    BY <2>1, <2>2
<1>. QED
  BY <1>1, <1>2, <1>3, <1>4, <1>5 DEF Next

\* The invariant the theorems below are parts of.
THEOREM SupervisorSafe == Spec => [](TypeOK /\ Safety)
<1>1. Init => TypeOK /\ Safety
  BY InitSafe
<1>2. TypeOK /\ Safety /\ [Next]_vars => (TypeOK /\ Safety)'
  BY StepSafe
<1>. QED
  BY <1>1, <1>2, PTL DEF Spec

\* Every variable keeps its type, whatever the limits and timeouts.
THEOREM SupervisorTypes == Spec => []TypeOK
BY SupervisorSafe, PTL

\* A backend counts as ready only if the running process has answered HELLO.
THEOREM SupervisorReady == Spec => []ReadyIsProven
<1>1. Safety => ReadyIsProven
  BY DEF Safety
<1>. QED
  BY <1>1, SupervisorSafe, PTL

\* A scan that is waited for is in the hands of a ready backend.
THEOREM SupervisorScan == Spec => []ScanHasBackend
<1>1. Safety => ScanHasBackend
  BY DEF Safety
<1>. QED
  BY <1>1, SupervisorSafe, PTL

\* Without a process, a restart is on its way or the supervisor has FAILED.
THEOREM SupervisorNotStranded == Spec => []NeverStranded
<1>1. Safety => NeverStranded
  BY DEF Safety
<1>. QED
  BY <1>1, SupervisorSafe, PTL

\* No escalation outlives the process it was meant for.
THEOREM SupervisorEscalation == Spec => []EscalationOwned
<1>1. Safety => EscalationOwned
  BY DEF Safety
<1>. QED
  BY <1>1, SupervisorSafe, PTL

\* FAILED leaves no live process to itself.
THEOREM SupervisorFailed == Spec => []FailedIsEscalated
<1>1. Safety => FailedIsEscalated
  BY DEF Safety
<1>. QED
  BY <1>1, SupervisorSafe, PTL

\* What is called ready is alive and proven, and a scan is in its hands.
THEOREM SupervisorCustody == Spec => []Custody
BY SupervisorReady, SupervisorScan, PTL DEF Custody

\* No process and no loss of one is without its timer.
THEOREM SupervisorNeverAlone == Spec => []NeverAlone
BY SupervisorNotStranded, SupervisorEscalation, SupervisorFailed, PTL DEF NeverAlone
=============================================================================
