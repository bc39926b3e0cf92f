------------------------ MODULE WorkerRuntimeProofs ------------------------
(***************************************************************************)
(* WorkerRuntime for any jobs and thresholds: what readiness claims has    *)
(* been persisted, a clean exit leaves no batch behind, and the watchdog   *)
(* ends neither too few processes nor too many.                            *)
(***************************************************************************)
EXTENDS WorkerRuntime, TLAPS

(* A failed batch is remembered before its report is written. *)
ReportsFailure == \A j \in Jobs : tick[j] = "reporting" => failed[j]

(* The row of a job that has succeeded since its last failure is as young  *)
(* as the success in memory.                                               *)
RowFollows ==
  \A j \in Jobs :
    since[j] < NeverSucceeded /\ ~failed[j]
      => row[j].known /\ ~row[j].failing /\ row[j].age <= since[j]

(* The success being saved is not older than the one before it. *)
SavesNewer ==
  \A j \in Jobs : tick[j] = "saving" => pulse[j] <= since[j] \/ since[j] = NeverSucceeded

(* app.close goes on only when every tick has ended. *)
ClosesDrained ==
  /\ proc = "closing" => \A j \in Jobs : tick[j] = "idle"
  /\ exit = "clean" => proc = "down" /\ \A j \in Jobs : tick[j] = "idle"

(* A process without faults: each job has succeeded in this unit, or its   *)
(* timer has just fired for the next batch.                                *)
KeepsUp ==
  ~troubled /\ proc = "up" =>
    /\ calm
    /\ \A j \in Jobs :
         /\ ~failed[j] /\ tick[j] \in {"idle", "batch", "saving"}
         /\ tick[j] = "saving" => pulse[j] = 0
         /\ tick[j] = "idle" /\ j \notin due => since[j] = 0
         /\ since[j] <= 1 \/ (uptime = 0 /\ tick[j] # "idle")

IInv ==
  /\ TypeOK /\ ReportsFailure /\ RowFollows /\ SavesNewer /\ ClosesDrained
  /\ KeepsUp /\ SparedWhenCalm /\ StaleIsCaught

-----------------------------------------------------------------------------
(* The thresholds, one by one. *)
LEMMA Thresholds ==
  /\ StartupGrace \in Nat /\ StartupGrace > 0
  /\ StaleAfter \in Nat /\ StaleAfter > 0
  /\ ShutdownGrace \in Nat /\ ShutdownGrace > 0
  /\ DashboardStale \in Nat /\ DashboardStale > 0
  <1>1. \A n \in {StartupGrace, StaleAfter, ShutdownGrace, DashboardStale} : n \in Nat /\ n > 0
    BY WorkerAssumption DEF WorkerAssumption
  <1> QED
    BY <1>1

(* What a process starts with has its types. *)
LEMMA FreshTypes ==
  /\ [j \in Jobs |-> "batch"] \in [Jobs -> {"idle", "batch", "saving", "reporting", "hung"}]
  /\ [j \in Jobs |-> NeverSucceeded] \in [Jobs -> 0 .. NeverSucceeded]
  /\ [j \in Jobs |-> FALSE] \in [Jobs -> BOOLEAN]
  /\ [j \in Jobs |-> 0] \in [Jobs -> Nat]
  /\ 0 \in 0 .. StartupGrace /\ 0 \in 0 .. ShutdownGrace
  /\ [j \in Jobs |-> [known |-> FALSE, age |-> OldRow, failing |-> FALSE]]
       \in [Jobs -> [known : BOOLEAN, age : 0 .. OldRow, failing : BOOLEAN]]
  <1>1. /\ NeverSucceeded \in 0 .. NeverSucceeded /\ OldRow \in 0 .. OldRow
        /\ 0 \in 0 .. StartupGrace /\ 0 \in 0 .. ShutdownGrace
    BY Thresholds DEF NeverSucceeded, OldRow
  <1>2. [known |-> FALSE, age |-> OldRow, failing |-> FALSE]
          \in [known : BOOLEAN, age : 0 .. OldRow, failing : BOOLEAN]
    BY <1>1
  <1> QED
    BY <1>1, <1>2

(* The first process satisfies the invariant. *)
LEMMA InitIInv == Init => IInv
  <1> USE Thresholds
  <1> SUFFICES ASSUME Init PROVE IInv
    OBVIOUS
  <1>1. TypeOK
    <2>1. since \in [Jobs -> 0 .. NeverSucceeded] /\ pulse \in [Jobs -> Nat]
      BY FreshTypes DEF Init
    <2>2. row \in [Jobs -> [known : BOOLEAN, age : 0 .. OldRow, failing : BOOLEAN]]
      BY FreshTypes, Zenon DEF Init
    <2>3. /\ tick \in [Jobs -> {"idle", "batch", "saving", "reporting", "hung"}]
          /\ uptime \in 0 .. StartupGrace /\ drain \in 0 .. ShutdownGrace
      BY FreshTypes DEF Init
    <2>4. failed \in [Jobs -> BOOLEAN]
      BY FreshTypes, Zenon DEF Init
    <2> QED
      BY <2>1, <2>2, <2>3, <2>4, Zenon DEF Init, TypeOK
  <1>2. ReportsFailure /\ SavesNewer /\ ClosesDrained
    BY DEF Init, ReportsFailure, SavesNewer, ClosesDrained
  <1>3. RowFollows
    <2> SUFFICES ASSUME NEW j \in Jobs PROVE ~(since[j] < NeverSucceeded)
      BY DEF RowFollows
    <2>1. since = [i \in Jobs |-> NeverSucceeded]
      BY DEF Init
    <2> QED
      BY <2>1 DEF NeverSucceeded
  <1>4. KeepsUp /\ SparedWhenCalm /\ StaleIsCaught
    <2>1. KeepsUp
      BY DEF Init, KeepsUp
    <2>2. SparedWhenCalm
      BY DEF Init, SparedWhenCalm
    <2>3. StaleIsCaught
      BY DEF Init, StaleIsCaught
    <2> QED
      BY <2>1, <2>2, <2>3
  <1> QED
    BY <1>1, <1>2, <1>3, <1>4 DEF IInv

(* Types, under the steps of a job. *)
LEMMA JobTypes ==
  ASSUME TypeOK, NEW j \in Jobs, JobStep(j)
  PROVE  TypeOK'
  <1> USE Thresholds DEF process, timers, memory
  <1>1. CASE StartTick(j) \/ SkipTick(j)
    BY <1>1 DEF TypeOK, StartTick, SkipTick
  <1>2. CASE BatchSucceeds(j)
    BY <1>2 DEF TypeOK, BatchSucceeds
  <1>3. CASE BatchHangs(j)
    BY <1>3 DEF TypeOK, BatchHangs
  <1>4. CASE TickFails(j)
    <2>1. failed' \in [Jobs -> BOOLEAN]
      BY <1>4, Zenon DEF TypeOK, TickFails
    <2>2. tick' \in [Jobs -> {"idle", "batch", "saving", "reporting", "hung"}]
      BY <1>4 DEF TypeOK, TickFails
    <2> QED
      BY <1>4, <2>1, <2>2, Zenon DEF TypeOK, TickFails
  <1>5. CASE SuccessSaved(j)
    <2>1. (IF pulse[j] < OldRow THEN pulse[j] ELSE OldRow) \in 0 .. OldRow
      BY DEF TypeOK, OldRow
    <2>2. (IF pulse[j] < NeverSucceeded THEN pulse[j] ELSE NeverSucceeded) \in 0 .. NeverSucceeded
      BY DEF TypeOK, NeverSucceeded
    <2>3. row' \in [Jobs -> [known : BOOLEAN, age : 0 .. OldRow, failing : BOOLEAN]]
      BY <1>5, <2>1 DEF TypeOK, SuccessSaved
    <2>4. since' \in [Jobs -> 0 .. NeverSucceeded]
      BY <1>5, <2>2 DEF TypeOK, SuccessSaved
    <2>5. /\ tick' \in [Jobs -> {"idle", "batch", "saving", "reporting", "hung"}]
          /\ failed' \in [Jobs -> BOOLEAN]
      BY <1>5, Zenon DEF TypeOK, SuccessSaved
    <2> QED
      BY <1>5, <2>3, <2>4, <2>5, Zenon DEF TypeOK, SuccessSaved
  <1>6. CASE FailureReported(j)
    <2>1. row' \in [Jobs -> [known : BOOLEAN, age : 0 .. OldRow, failing : BOOLEAN]]
      <3>1. row[j].age \in 0 .. OldRow
        BY DEF TypeOK
      <3>2. [known |-> TRUE, failing |-> TRUE, age |-> row[j].age]
              \in [known : BOOLEAN, age : 0 .. OldRow, failing : BOOLEAN]
        BY <3>1
      <3> QED
        BY <1>6, <3>2, Zenon DEF TypeOK, FailureReported
    <2>2. tick' \in [Jobs -> {"idle", "batch", "saving", "reporting", "hung"}]
      BY <1>6, Zenon DEF TypeOK, FailureReported
    <2> QED
      BY <1>6, <2>1, <2>2, Zenon DEF TypeOK, FailureReported
  <1> QED
    BY <1>1, <1>2, <1>3, <1>4, <1>5, <1>6, Zenon DEF JobStep

(* Types, under the steps of the process. *)
LEMMA ProcessTypes ==
  ASSUME TypeOK,
         \/ Restart \/ OperatorStarts \/ CheckPasses \/ WatchdogExits
         \/ Shutdown \/ Drained \/ CloseReturns \/ ForceExit \/ Killed
  PROVE  TypeOK'
  <1> USE Thresholds DEF process, timers, memory
  <1>1. CASE Restart
    <2>1. /\ since' \in [Jobs -> 0 .. NeverSucceeded] /\ pulse' \in [Jobs -> Nat]
          /\ tick' \in [Jobs -> {"idle", "batch", "saving", "reporting", "hung"}]
          /\ uptime' \in 0 .. StartupGrace /\ drain' \in 0 .. ShutdownGrace
      BY <1>1, FreshTypes DEF Restart
    <2>2. failed' \in [Jobs -> BOOLEAN]
      BY <1>1, FreshTypes, Zenon DEF Restart
    <2> QED
      BY <1>1, <2>1, <2>2, Zenon DEF TypeOK, Restart
  <1>2. CASE OperatorStarts \/ CheckPasses \/ Shutdown \/ Drained
    <2>1. drain' \in 0 .. ShutdownGrace
      BY <1>2 DEF TypeOK, OperatorStarts, CheckPasses, Shutdown, Drained
    <2> QED
      BY <1>2, <2>1, Zenon DEF TypeOK, OperatorStarts, CheckPasses, Shutdown, Drained
  <1>3. CASE WatchdogExits \/ CloseReturns \/ ForceExit \/ Killed
    BY <1>3 DEF TypeOK, WatchdogExits, CloseReturns, ForceExit, Killed, Exits
  <1> QED
    BY <1>1, <1>2, <1>3, Zenon

(* Types, when time passes. *)
LEMMA AdvanceTypes ==
  ASSUME TypeOK, Advance
  PROVE  TypeOK'
  <1> USE Thresholds DEF TypeOK
  <1>1. uptime' \in 0 .. StartupGrace /\ drain' \in 0 .. ShutdownGrace
    BY DEF Advance, Older
  <1>2. since' \in [Jobs -> 0 .. NeverSucceeded]
    BY DEF Advance, Older, NeverSucceeded
  <1>3. pulse' \in [Jobs -> Nat]
    BY DEF Advance, Older
  <1>4. row' \in [Jobs -> [known : BOOLEAN, age : 0 .. OldRow, failing : BOOLEAN]]
    <2>1. \A j \in Jobs : Older(row[j].age, OldRow) \in 0 .. OldRow
      BY DEF Older, OldRow
    <2> QED
      BY <2>1 DEF Advance
  <1> QED
    BY <1>1, <1>2, <1>3, <1>4 DEF Advance

LEMMA NextTypes == TypeOK /\ [Next]_vars => TypeOK'
  <1> SUFFICES ASSUME TypeOK, [Next]_vars PROVE TypeOK'
    OBVIOUS
  <1>1. CASE \E j \in Jobs : JobStep(j)
    BY <1>1, JobTypes
  <1>2. CASE Advance
    BY <1>2, AdvanceTypes
  <1>3. CASE \/ Restart \/ OperatorStarts \/ CheckPasses \/ WatchdogExits
             \/ Shutdown \/ Drained \/ CloseReturns \/ ForceExit \/ Killed
    BY <1>3, ProcessTypes
  <1>4. CASE UNCHANGED vars
    BY <1>4, Zenon DEF TypeOK, vars, process, timers, memory
  <1> QED
    BY <1>1, <1>2, <1>3, <1>4, Zenon DEF Next

-----------------------------------------------------------------------------
(* What the steps that end or drain a process leave alone. *)
LEMMA ProcessLeaves ==
  ASSUME \/ OperatorStarts \/ CheckPasses \/ WatchdogExits
         \/ Shutdown \/ Drained \/ CloseReturns \/ ForceExit \/ Killed \/ UNCHANGED vars
  PROVE  UNCHANGED <<tick, since, failed, pulse, row>>
  BY Zenon DEF OperatorStarts, CheckPasses, WatchdogExits, Shutdown, Drained, CloseReturns,
               ForceExit, Killed, Exits, vars, process, timers, memory

(* Only FailureReported ends a report, and only a saved success clears the *)
(* memory of a failure.                                                    *)
LEMMA ReportsStep ==
  ASSUME TypeOK, ReportsFailure, [Next]_vars
  PROVE  ReportsFailure'
  <1> USE DEF TypeOK, ReportsFailure, process, timers, memory
  <1>1. ASSUME NEW j \in Jobs, JobStep(j) PROVE ReportsFailure'
    <2>1. CASE StartTick(j) \/ SkipTick(j) \/ BatchSucceeds(j) \/ BatchHangs(j)
      BY <2>1 DEF StartTick, SkipTick, BatchSucceeds, BatchHangs
    <2>2. CASE TickFails(j) \/ SuccessSaved(j) \/ FailureReported(j)
      BY <2>2 DEF TickFails, SuccessSaved, FailureReported
    <2> QED
      BY <1>1, <2>1, <2>2, Zenon DEF JobStep
  <1>2. CASE Restart
    BY <1>2 DEF Restart
  <1>3. CASE Advance
    BY <1>3, Zenon DEF Advance
  <1>4. CASE UNCHANGED <<tick, since, failed, pulse, row>>
    BY <1>4, Zenon
  <1> QED
    BY <1>1, <1>2, <1>3, <1>4, ProcessLeaves, Zenon DEF Next

(* A newer success has a younger row; a report comes after a failure.      *)
LEMMA RowStep ==
  ASSUME TypeOK, ReportsFailure, RowFollows, [Next]_vars
  PROVE  RowFollows'
  <1> USE Thresholds DEF TypeOK, RowFollows, process, timers, memory, NeverSucceeded, OldRow
  <1>1. ASSUME NEW j \in Jobs, JobStep(j) PROVE RowFollows'
    <2>1. CASE StartTick(j) \/ SkipTick(j) \/ BatchSucceeds(j) \/ BatchHangs(j)
      BY <2>1, Zenon DEF StartTick, SkipTick, BatchSucceeds, BatchHangs
    <2>2. CASE TickFails(j)
      BY <2>2 DEF TickFails
    <2>3. CASE SuccessSaved(j)
      BY <2>3 DEF SuccessSaved
    <2>4. CASE FailureReported(j)
      BY <2>4 DEF FailureReported, ReportsFailure
    <2> QED
      BY <1>1, <2>1, <2>2, <2>3, <2>4, Zenon DEF JobStep
  <1>2. CASE Restart
    BY <1>2 DEF Restart
  <1>3. CASE Advance
    BY <1>3 DEF Advance, Older
  <1>4. CASE UNCHANGED <<tick, since, failed, pulse, row>>
    BY <1>4, Zenon
  <1> QED
    BY <1>1, <1>2, <1>3, <1>4, ProcessLeaves, Zenon DEF Next

(* The clock is read when the batch is done, and both ages grow together.  *)
LEMMA SavesStep ==
  ASSUME TypeOK, SavesNewer, [Next]_vars
  PROVE  SavesNewer'
  <1> USE Thresholds DEF TypeOK, SavesNewer, process, timers, memory, NeverSucceeded
  <1>1. ASSUME NEW j \in Jobs, JobStep(j) PROVE SavesNewer'
    <2>1. CASE StartTick(j) \/ SkipTick(j) \/ BatchHangs(j) \/ TickFails(j)
      BY <2>1 DEF StartTick, SkipTick, BatchHangs, TickFails
    <2>2. CASE BatchSucceeds(j) \/ SuccessSaved(j) \/ FailureReported(j)
      BY <2>2 DEF BatchSucceeds, SuccessSaved, FailureReported
    <2> QED
      BY <1>1, <2>1, <2>2, Zenon DEF JobStep
  <1>2. CASE Restart
    BY <1>2 DEF Restart
  <1>3. CASE Advance
    BY <1>3 DEF Advance, Older
  <1>4. CASE UNCHANGED <<tick, since, failed, pulse, row>>
    BY <1>4, Zenon
  <1> QED
    BY <1>1, <1>2, <1>3, <1>4, ProcessLeaves, Zenon DEF Next

(* Past the wait for the ticks, no tick starts any more. *)
LEMMA ClosesStep ==
  ASSUME TypeOK, ClosesDrained, [Next]_vars
  PROVE  ClosesDrained'
  <1> USE DEF TypeOK, ClosesDrained, process, timers, memory
  <1>1. ASSUME NEW j \in Jobs, JobStep(j) PROVE ClosesDrained'
    <2>1. Serving /\ UNCHANGED <<proc, exit>>
      BY <1>1, Zenon DEF JobStep, StartTick, SkipTick, BatchSucceeds, BatchHangs, TickFails,
                         SuccessSaved, FailureReported, Serving
    <2> QED
      BY <2>1 DEF Serving
  <1>2. CASE Restart
    BY <1>2 DEF Restart
  <1>3. CASE Advance \/ OperatorStarts \/ CheckPasses \/ UNCHANGED vars
    BY <1>3, Zenon DEF Advance, OperatorStarts, CheckPasses, vars
  <1>4. CASE Shutdown \/ Drained
    BY <1>4 DEF Shutdown, Drained
  <1>5. CASE WatchdogExits \/ CloseReturns \/ ForceExit \/ Killed
    BY <1>5 DEF WatchdogExits, CloseReturns, ForceExit, Killed, Exits
  <1> QED
    BY <1>1, <1>2, <1>3, <1>4, <1>5, Zenon DEF Next

(* In a unit without faults every tick ends, so the timer of the next unit *)
(* finds each job idle and its success one unit old.                       *)
LEMMA KeepsUpStep ==
  ASSUME TypeOK, KeepsUp, [Next]_vars
  PROVE  KeepsUp'
  <1> USE Thresholds DEF TypeOK, process, timers, memory
  <1>1. ASSUME NEW j \in Jobs, JobStep(j) PROVE KeepsUp'
    <2> SUFFICES ASSUME ~troubled, proc = "up" PROVE KeepsUp'
      <3>1. UNCHANGED <<calm, troubled, proc, uptime>>
        BY <1>1, Zenon DEF JobStep, StartTick, SkipTick, BatchSucceeds, BatchHangs, TickFails,
                           SuccessSaved, FailureReported
      <3> QED
        BY <3>1, Zenon DEF KeepsUp
    <2>1. CASE StartTick(j) \/ SkipTick(j)
      BY <2>1 DEF KeepsUp, StartTick, SkipTick
    <2>2. CASE BatchSucceeds(j)
      BY <2>2 DEF KeepsUp, BatchSucceeds
    <2>3. CASE BatchHangs(j) \/ TickFails(j) \/ FailureReported(j)
      BY <2>3 DEF KeepsUp, BatchHangs, TickFails, FailureReported
    <2>4. CASE SuccessSaved(j)
      BY <2>4 DEF KeepsUp, SuccessSaved, NeverSucceeded
    <2> QED
      BY <1>1, <2>1, <2>2, <2>3, <2>4, Zenon DEF JobStep
  <1>2. CASE Restart
    BY <1>2 DEF Restart, KeepsUp
  <1>3. CASE Advance
    <2> SUFFICES ASSUME ~troubled', proc = "up" PROVE KeepsUp'
      BY <1>3, Zenon DEF Advance, KeepsUp
    <2>1. ~troubled /\ calm /\ calm' /\ due = {}
      BY <1>3, Zenon DEF Advance, KeepsUp
    <2>2. \A j \in Jobs : tick[j] = "idle" /\ since[j] = 0 /\ ~failed[j]
      BY <1>3, <2>1 DEF Advance, KeepsUp, InFlight
    <2>3. since' = [j \in Jobs |-> Older(since[j], NeverSucceeded)] /\ due' = Jobs
      BY <1>3 DEF Advance
    <2>4. \A j \in Jobs : since'[j] <= 1
      BY <2>2, <2>3 DEF Older, NeverSucceeded
    <2>5. tick' = tick /\ failed' = failed
      BY <1>3, Zenon DEF Advance
    <2> QED
      BY <2>1, <2>2, <2>3, <2>4, <2>5 DEF KeepsUp
  <1>4. CASE CheckPasses \/ UNCHANGED vars
    BY <1>4, Zenon DEF CheckPasses, vars, KeepsUp
  <1>5. CASE \/ OperatorStarts \/ WatchdogExits \/ Shutdown \/ Drained \/ CloseReturns
             \/ ForceExit \/ Killed
    <2>1. proc' # "up"
      BY <1>5 DEF OperatorStarts, WatchdogExits, Shutdown, Drained, CloseReturns, ForceExit,
                  Killed, Exits
    <2> QED
      BY <2>1, Zenon DEF KeepsUp
  <1> QED
    BY <1>1, <1>2, <1>3, <1>4, <1>5, Zenon DEF Next

(* The watchdog acts after the start-up grace, on a success two units old. *)
LEMMA SparedStep ==
  ASSUME TypeOK, KeepsUp, SparedWhenCalm, [Next]_vars
  PROVE  SparedWhenCalm'
  <1> USE DEF process, timers, memory
  <1>1. CASE WatchdogExits
    <2> SUFFICES ASSUME ~troubled PROVE FALSE
      BY <1>1, Zenon DEF WatchdogExits, Exits, SparedWhenCalm
    <2>1. PICK j \in Jobs : since[j] > StaleAfter /\ ~(uptime < StartupGrace)
      BY <1>1, Zenon DEF WatchdogExits, StaleJobs
    <2>2. since[j] <= 1 \/ uptime = 0
      BY <1>1, Zenon DEF WatchdogExits, KeepsUp
    <2> QED
      BY <2>1, <2>2, Thresholds DEF TypeOK, NeverSucceeded
  <1>2. CASE Restart \/ OperatorStarts \/ CheckPasses \/ Shutdown \/ Drained \/ UNCHANGED vars
    BY <1>2 DEF Restart, OperatorStarts, CheckPasses, Shutdown, Drained, vars, SparedWhenCalm
  <1>3. CASE CloseReturns \/ ForceExit \/ Killed
    BY <1>3 DEF CloseReturns, ForceExit, Killed, Exits, SparedWhenCalm
  <1>4. CASE Advance
    BY <1>4, Zenon DEF Advance, SparedWhenCalm
  <1>5. ASSUME NEW j \in Jobs, JobStep(j) PROVE SparedWhenCalm'
    BY <1>5, Zenon DEF JobStep, StartTick, SkipTick, BatchSucceeds, BatchHangs, TickFails,
                       SuccessSaved, FailureReported, SparedWhenCalm
  <1> QED
    BY <1>1, <1>2, <1>3, <1>4, <1>5, Zenon DEF Next

(* Time makes a job stale and schedules the check; nothing else makes one  *)
(* stale, not even a success whose upsert took very long.                  *)
LEMMA CaughtStep ==
  ASSUME TypeOK, SavesNewer, StaleIsCaught, [Next]_vars
  PROVE  StaleIsCaught'
  <1> USE Thresholds DEF TypeOK, process, timers, memory
  <1>1. ASSUME NEW j \in Jobs, JobStep(j) PROVE StaleIsCaught'
    <2>1. UNCHANGED <<proc, uptime, checkDue>>
      BY <1>1, Zenon DEF JobStep, StartTick, SkipTick, BatchSucceeds, BatchHangs, TickFails,
                         SuccessSaved, FailureReported
    <2>2. \A i \in Jobs : since'[i] > StaleAfter => since[i] > StaleAfter
      <3>1. CASE SuccessSaved(j)
        BY <3>1 DEF SuccessSaved, SavesNewer, NeverSucceeded
      <3>2. CASE ~SuccessSaved(j)
        BY <1>1, <3>2, Zenon DEF JobStep, StartTick, SkipTick, BatchSucceeds, BatchHangs, TickFails,
                                 FailureReported
      <3> QED
        BY <3>1, <3>2
    <2> QED
      BY <2>1, <2>2, Zenon DEF StaleIsCaught
  <1>2. CASE Restart
    BY <1>2 DEF Restart, StaleIsCaught
  <1>3. CASE Advance
    BY <1>3, Zenon DEF Advance, StaleIsCaught
  <1>4. CASE CheckPasses
    BY <1>4 DEF CheckPasses, StaleJobs, StaleIsCaught
  <1>5. CASE \/ OperatorStarts \/ WatchdogExits \/ Shutdown \/ Drained \/ CloseReturns
             \/ ForceExit \/ Killed
    <2>1. proc' # "up"
      BY <1>5 DEF OperatorStarts, WatchdogExits, Shutdown, Drained, CloseReturns, ForceExit,
                  Killed, Exits
    <2> QED
      BY <2>1, Zenon DEF StaleIsCaught
  <1>6. CASE UNCHANGED vars
    BY <1>6, Zenon DEF vars, StaleIsCaught
  <1> QED
    BY <1>1, <1>2, <1>3, <1>4, <1>5, <1>6, Zenon DEF Next

-----------------------------------------------------------------------------
(* The invariant is inductive. *)
LEMMA Inductive == Spec => []IInv
  <1>1. IInv /\ [Next]_vars => IInv'
    BY NextTypes, ReportsStep, RowStep, SavesStep, ClosesStep, KeepsUpStep, SparedStep, CaughtStep,
       Zenon DEF IInv
  <1> QED
    BY <1>1, InitIInv, PTL DEF Spec

(* Types, for any jobs and thresholds. *)
THEOREM WorkerTypes == Spec => []TypeOK
  <1>1. IInv => TypeOK
    BY DEF IInv
  <1> QED
    BY <1>1, Inductive, PTL

(* A process that says it is ready has told the console of every job: the  *)
(* heartbeat is there, not failing, and not older than the success it      *)
(* remembers, whatever upserts failed or hung (snapshot, recordSuccess).   *)
THEOREM ReadyIsTold == Spec => []ReadyIsPersisted
  <1>1. IInv => ReadyIsPersisted
    <2> SUFFICES ASSUME IInv, Ready, NEW j \in Jobs
                 PROVE  /\ WorkerHealth(j) \in {"HEALTHY", "STALE"}
                        /\ WorkerHealth(j) = "STALE" => since[j] > DashboardStale
      BY Zenon DEF ReadyIsPersisted
    <2>1. ~failed[j] /\ proc # "closing" /\ ~(uptime < StartupGrace)
      BY Thresholds DEF Ready, Serving, IInv, TypeOK
    <2>2. ~(since[j] > StaleAfter)
      BY <2>1, Zenon DEF Ready, StaleJobs
    <2>3. row[j].known /\ ~row[j].failing /\ row[j].age <= since[j]
      BY <2>1, <2>2, Thresholds DEF IInv, TypeOK, RowFollows, NeverSucceeded
    <2>4. WorkerHealth(j) = IF row[j].age > DashboardStale THEN "STALE" ELSE "HEALTHY"
      BY <2>3 DEF WorkerHealth
    <2>5. row[j].age \in Nat /\ since[j] \in Nat
      BY Thresholds DEF IInv, TypeOK, OldRow, NeverSucceeded
    <2> QED
      BY <2>3, <2>4, <2>5, Thresholds
  <1> QED
    BY <1>1, Inductive, PTL

(* The watchdog never ends a process in which no statement failed or hung, *)
(* for any start-up grace and stale threshold of at least one interval.    *)
THEOREM WatchdogSpares == Spec => []SparedWhenCalm
  <1>1. IInv => SparedWhenCalm
    BY DEF IInv
  <1> QED
    BY <1>1, Inductive, PTL

(* Past the grace a stale job always has a check of the watchdog coming.   *)
THEOREM WatchdogCatches == Spec => []StaleIsCaught
  <1>1. IInv => StaleIsCaught
    BY DEF IInv
  <1> QED
    BY <1>1, Inductive, PTL

(* A process that ends with code 0 has no batch half done (shutdown waits  *)
(* in onModuleDestroy of every job).                                       *)
THEOREM CleanExits == Spec => []CleanExitIsDrained
  <1>1. IInv => CleanExitIsDrained
    BY Zenon DEF IInv, ClosesDrained, CleanExitIsDrained
  <1> QED
    BY <1>1, Inductive, PTL
=============================================================================
