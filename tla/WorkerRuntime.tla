---------------------------- MODULE WorkerRuntime ----------------------------
(***************************************************************************)
(* The worker process: its jobs (three services with the same tick), the   *)
(* health records in memory and in WorkerHeartbeat, the watchdog, the      *)
(* shutdown of worker-main and the restart policy of compose.              *)
(* One unit of time is the interval of the job timers and of the watchdog. *)
(* Times are kept as ages, cut one unit past the largest threshold they    *)
(* are compared with; a lastSuccessAt that is null is one of that age.     *)
(* Timers are prompt.  While `calm` holds the environment causes no fault: *)
(* a batch or an upsert succeeds within the unit, no process is killed.    *)
(***************************************************************************)
EXTENDS Naturals

CONSTANTS
  Jobs,            \* WORKER_NAMES
  StartupGrace, StaleAfter, ShutdownGrace,
  DashboardStale   \* age at which the admin console calls a job STALE

ASSUME WorkerAssumption ==
  {StartupGrace, StaleAfter, ShutdownGrace, DashboardStale} \subseteq Nat \ {0}

VARIABLES
  calm,     \* the environment causes no fault in this unit
  wanted,   \* the container is not stopped by the operator
  proc,     \* the process: "up", "draining", "closing", "down"
  exit,     \* how the last process ended
  uptime, drain,   \* ages of startedAt and of the shutdown request
  tick,     \* where the tick of each job stands
  due,      \* jobs whose timer is to fire in this unit
  checkDue, \* and the watchdog
  since,    \* age of runtime.lastSuccessAt
  failed,   \* lastFailureAt > lastSuccessAt
  pulse,    \* age of the clock reading recordSuccess is about to store
  row,      \* WorkerHeartbeat: [known, age, failing]
  troubled  \* history: a fault was possible during this process

timers == <<due, checkDue>>
memory == <<since, failed, pulse>>
process == <<wanted, proc, exit, uptime, drain, troubled>>
vars == <<calm, process, tick, timers, memory, row>>

Older(age, limit) == IF age < limit THEN age + 1 ELSE age
NeverSucceeded == StaleAfter + 1
OldRow == DashboardStale + 1

Serving == proc \in {"up", "draining"}
InFlight(j) == tick[j] \in {"batch", "saving", "reporting"}

-----------------------------------------------------------------------------
(* WorkerRuntimeHealthService.snapshot and the status shown to an admin.   *)

(* Mutant: a job in the middle of a batch is not counted as stale. *)
StaleIfIdle ==
  IF uptime < StartupGrace \/ proc = "closing" THEN {}
  ELSE {j \in Jobs : since[j] > StaleAfter /\ tick[j] = "idle"}

StaleJobs ==
  IF uptime < StartupGrace \/ proc = "closing" THEN {}
  ELSE {j \in Jobs : since[j] > StaleAfter}

Ready ==
  /\ Serving /\ uptime = StartupGrace
  /\ StaleJobs = {} /\ \A j \in Jobs : ~failed[j]

WorkerHealth(j) ==
  CASE ~row[j].known -> "UNKNOWN"
    [] row[j].known /\ row[j].failing -> "FAILED"
    [] row[j].known /\ ~row[j].failing /\ row[j].age > DashboardStale -> "STALE"
    [] OTHER -> "HEALTHY"

-----------------------------------------------------------------------------
(* Start of the process: each job ticks at once, in onModuleInit.          *)
Init ==
  /\ calm \in BOOLEAN /\ troubled = ~calm
  /\ wanted = TRUE /\ proc = "up" /\ exit = "none"
  /\ uptime = 0 /\ drain = 0
  /\ tick = [j \in Jobs |-> "batch"]
  /\ due = {} /\ checkDue = FALSE
  /\ since = [j \in Jobs |-> NeverSucceeded]
  /\ failed = [j \in Jobs |-> FALSE]
  /\ pulse = [j \in Jobs |-> 0]
  /\ row = [j \in Jobs |-> [known |-> FALSE, age |-> OldRow, failing |-> FALSE]]

(* restart: unless-stopped (external).                                     *)
Restart ==
  /\ proc = "down" /\ wanted
  /\ proc' = "up" /\ exit' = "none" /\ uptime' = 0 /\ drain' = 0
  /\ troubled' = ~calm
  /\ tick' = [j \in Jobs |-> "batch"]
  /\ due' = {} /\ checkDue' = FALSE
  /\ since' = [j \in Jobs |-> NeverSucceeded]
  /\ failed' = [j \in Jobs |-> FALSE]
  /\ pulse' = [j \in Jobs |-> 0]
  /\ UNCHANGED <<calm, wanted, row>>

(* The operator starts a stopped container.                                *)
OperatorStarts ==
  /\ proc = "down" /\ ~wanted /\ wanted' = TRUE
  /\ UNCHANGED <<calm, proc, exit, uptime, drain, troubled, tick, timers, memory, row>>

(* Time passes once the timers of this unit have fired; the next unit may  *)
(* be one with faults.                                                     *)
Advance ==
  /\ proc = "down" \/ (due = {} /\ ~checkDue)
  /\ proc \in {"draining", "closing"} => drain < ShutdownGrace
  /\ calm => /\ \A j \in Jobs : ~InFlight(j)
             /\ proc # "closing" /\ ~(proc = "down" /\ wanted)
  /\ uptime' = Older(uptime, StartupGrace)
  /\ drain' = IF proc \in {"draining", "closing"} THEN drain + 1 ELSE drain
  /\ due' = IF proc = "up" THEN Jobs ELSE {}
  /\ checkDue' = (proc = "up")
  /\ since' = [j \in Jobs |-> Older(since[j], NeverSucceeded)]
  /\ pulse' = [j \in Jobs |-> IF tick[j] = "saving"
                              THEN Older(pulse[j], StaleAfter + DashboardStale + 1) ELSE 0]
  /\ row' = [j \in Jobs |-> [row[j] EXCEPT !.age = Older(row[j].age, OldRow)]]
  /\ calm' \in BOOLEAN /\ troubled' = (troubled \/ ~calm')
  /\ UNCHANGED <<wanted, proc, exit, tick, failed>>

-----------------------------------------------------------------------------
(* scheduleTick and tick.                                                  *)

StartTick(j) ==
  /\ proc = "up" /\ j \in due /\ tick[j] = "idle"
  /\ tick' = [tick EXCEPT ![j] = "batch"]
  /\ due' = due \ {j}
  /\ UNCHANGED <<calm, process, checkDue, memory, row>>

SkipTick(j) ==
  /\ proc = "up" /\ j \in due /\ tick[j] # "idle"
  /\ due' = due \ {j}
  /\ UNCHANGED <<calm, process, tick, checkDue, memory, row>>

(* The batch of the job, all its parts, is done; recordSuccess reads the   *)
(* clock and starts the upsert.                                            *)
BatchSucceeds(j) ==
  /\ Serving /\ tick[j] = "batch"
  /\ tick' = [tick EXCEPT ![j] = "saving"]
  /\ pulse' = [pulse EXCEPT ![j] = 0]
  /\ UNCHANGED <<calm, process, timers, since, failed, row>>

(* A statement that gets no answer: nothing bounds the wait for it.        *)
BatchHangs(j) ==
  /\ ~calm /\ Serving /\ InFlight(j)
  /\ tick' = [tick EXCEPT ![j] = "hung"]
  /\ UNCHANGED <<calm, process, timers, memory, row>>

(* A part of the batch throws, the parts after it are skipped; or the      *)
(* upsert of the success does.                                             *)
TickFails(j) ==
  /\ ~calm /\ Serving /\ tick[j] \in {"batch", "saving"}
  /\ tick' = [tick EXCEPT ![j] = "reporting"]
  /\ failed' = [failed EXCEPT ![j] = TRUE]
  /\ UNCHANGED <<calm, process, timers, since, pulse, row>>

(* Mutant: the success is remembered although the upsert was not awaited.  *)
RemembersUnsaved(j) ==
  /\ Serving /\ tick[j] = "saving"
  /\ tick' = [tick EXCEPT ![j] = "idle"]
  /\ since' = [since EXCEPT ![j] = 0]
  /\ failed' = [failed EXCEPT ![j] = FALSE]
  /\ UNCHANGED <<calm, process, timers, pulse, row>>

(* Mutant: the runtime is not told (it is an optional dependency). *)
SavesRowOnly(j) ==
  /\ Serving /\ tick[j] = "saving"
  /\ tick' = [tick EXCEPT ![j] = "idle"]
  /\ row' = [row EXCEPT ![j] = [known |-> TRUE, failing |-> FALSE, age |-> 0]]
  /\ UNCHANGED <<calm, process, timers, memory>>

(* Mutant: a success does not outdate the failure before it. *)
FailureSticks(j) ==
  /\ Serving /\ tick[j] = "saving"
  /\ tick' = [tick EXCEPT ![j] = "idle"]
  /\ row' = [row EXCEPT ![j] = [known |-> TRUE, failing |-> FALSE, age |-> 0]]
  /\ since' = [since EXCEPT ![j] = 0]
  /\ UNCHANGED <<calm, process, timers, failed, pulse>>

(* recordSuccess: the row, then the memory, with the same reading.         *)
SuccessSaved(j) ==
  /\ Serving /\ tick[j] = "saving"
  /\ tick' = [tick EXCEPT ![j] = "idle"]
  /\ row' = [row EXCEPT ![j] =
       [known |-> TRUE, failing |-> FALSE,
        age |-> IF pulse[j] < OldRow THEN pulse[j] ELSE OldRow]]
  /\ since' = [since EXCEPT ![j] = IF pulse[j] < NeverSucceeded THEN pulse[j] ELSE NeverSucceeded]
  /\ failed' = [failed EXCEPT ![j] = FALSE]
  /\ UNCHANGED <<calm, process, timers, pulse>>

(* recordFailure: the row and again the memory, or its own failure, caught.*)
FailureReported(j) ==
  /\ Serving /\ tick[j] = "reporting"
  /\ tick' = [tick EXCEPT ![j] = "idle"]
  /\ \/ row' = [row EXCEPT ![j] = [known |-> TRUE, failing |-> TRUE, age |-> row[j].age]]
     \/ ~calm /\ UNCHANGED row
  /\ UNCHANGED <<calm, process, timers, memory>>

-----------------------------------------------------------------------------
(* The watchdog.                                                           *)

(* Mutant: one check after the grace is all there is. *)
CheckIsSpent ==
  /\ proc = "up" /\ checkDue
  /\ checkDue' = FALSE
  /\ UNCHANGED <<calm, process, tick, due, memory, row>>

CheckPasses ==
  /\ proc = "up" /\ checkDue /\ StaleJobs = {}
  /\ checkDue' = FALSE
  /\ UNCHANGED <<calm, process, tick, due, memory, row>>

Exits(how) ==
  /\ proc' = "down" /\ exit' = how
  /\ due' = {} /\ checkDue' = FALSE
  /\ UNCHANGED <<calm, uptime, drain, troubled, tick, memory, row>>

WatchdogExits ==
  /\ proc = "up" /\ checkDue /\ StaleJobs # {}
  /\ Exits("watchdog") /\ UNCHANGED wanted

-----------------------------------------------------------------------------
(* worker-main: SIGTERM or SIGINT, and app.close.                          *)

Shutdown ==
  /\ proc = "up"
  /\ proc' = "draining" /\ drain' = 0 /\ wanted' = FALSE
  /\ due' = {} /\ checkDue' = FALSE
  /\ UNCHANGED <<calm, exit, uptime, troubled, tick, memory, row>>

(* Every onModuleDestroy has waited for its tick.  The wait gives up after *)
(* the grace too, but the timer that forces the exit is older and as long. *)
Drained ==
  /\ proc = "draining" /\ \A j \in Jobs : tick[j] = "idle"
  /\ proc' = "closing"
  /\ UNCHANGED <<calm, wanted, exit, uptime, drain, troubled, tick, timers, memory, row>>

CloseReturns ==
  /\ proc = "closing"
  /\ \/ Exits("clean")
     \/ ~calm /\ Exits("failed")
  /\ UNCHANGED wanted

(* Mutant: a missing guard against a second signal, which starts the grace *)
(* anew.                                                                   *)
GraceStartsAnew ==
  /\ proc \in {"draining", "closing"} /\ drain = ShutdownGrace
  /\ drain' = 0
  /\ UNCHANGED <<calm, wanted, proc, exit, uptime, troubled, tick, timers, memory, row>>

ForceExit ==
  /\ proc \in {"draining", "closing"} /\ drain = ShutdownGrace
  /\ Exits("forced") /\ UNCHANGED wanted

(* SIGKILL or a crash of the process. *)
Killed ==
  /\ ~calm /\ proc # "down" /\ Exits("killed") /\ UNCHANGED wanted

JobStep(j) ==
  \/ StartTick(j) \/ SkipTick(j) \/ BatchSucceeds(j) \/ BatchHangs(j)
  \/ TickFails(j) \/ SuccessSaved(j) \/ FailureReported(j)

Next ==
  \/ Restart \/ OperatorStarts \/ Advance
  \/ \E j \in Jobs : JobStep(j)
  \/ CheckPasses \/ WatchdogExits
  \/ Shutdown \/ Drained \/ CloseReturns \/ ForceExit \/ Killed

Spec == Init /\ [][Next]_vars

(* The clock and the timers go on, compose restarts what has ended, and    *)
(* without faults the statements of a batch are answered.                  *)
FairSpec ==
  /\ Spec
  /\ WF_vars(Advance) /\ WF_vars(Restart)
  /\ WF_vars(CheckPasses \/ WatchdogExits)
  /\ WF_vars(ForceExit)
  /\ \A j \in Jobs : /\ WF_vars(StartTick(j) \/ SkipTick(j))
                     /\ WF_vars(calm /\ (BatchSucceeds(j) \/ SuccessSaved(j) \/ FailureReported(j)))
  /\ WF_vars(calm /\ (Drained \/ CloseReturns))

-----------------------------------------------------------------------------
TypeOK ==
  /\ calm \in BOOLEAN /\ wanted \in BOOLEAN /\ troubled \in BOOLEAN
  /\ proc \in {"up", "draining", "closing", "down"}
  /\ exit \in {"none", "watchdog", "clean", "failed", "forced", "killed"}
  /\ uptime \in 0 .. StartupGrace /\ drain \in 0 .. ShutdownGrace
  /\ tick \in [Jobs -> {"idle", "batch", "saving", "reporting", "hung"}]
  /\ due \subseteq Jobs /\ checkDue \in BOOLEAN
  /\ since \in [Jobs -> 0 .. NeverSucceeded]
  /\ failed \in [Jobs -> BOOLEAN]
  /\ pulse \in [Jobs -> Nat]
  /\ row \in [Jobs -> [known : BOOLEAN, age : 0 .. OldRow, failing : BOOLEAN]]

(* Readiness and the admin console agree: when the process says ready, the *)
(* heartbeat row of every job is there, tells of no failure, and is STALE  *)
(* to the console only because its threshold is the shorter one            *)
(* (recordSuccess writes the row before it tells the runtime).             *)
ReadyIsPersisted ==
  Ready => \A j \in Jobs :
             /\ WorkerHealth(j) \in {"HEALTHY", "STALE"}
             /\ WorkerHealth(j) = "STALE" => since[j] > DashboardStale

(* A process whose batches were all answered within the interval is never  *)
(* ended by the watchdog: one slow start or one slow batch is needed.      *)
SparedWhenCalm == exit = "watchdog" => troubled

(* A shutdown that ends with code 0 leaves no batch half done.             *)
CleanExitIsDrained == exit = "clean" => \A j \in Jobs : tick[j] = "idle"

(* No job is stale past the check of the unit in which it becomes so.      *)
StaleIsCaught ==
  proc = "up" /\ uptime = StartupGrace /\ (\E j \in Jobs : since[j] > StaleAfter) => checkDue

(* A batch that never returns ends with its process.                       *)
HungJobEndsProcess ==
  \A j \in Jobs : tick[j] = "hung" /\ proc # "down" ~> proc = "down"

(* A shutdown ends, whatever the batches under way do.                     *)
ShutdownEnds == proc = "draining" ~> proc = "down"

(* Once the faults are over and the container is wanted, the worker gets   *)
(* ready and stays so: watchdog and restart settle, they do not loop.      *)
RecoversAfterFaults == <>[](calm /\ wanted) => <>[]Ready
=============================================================================
