-------------------------------- MODULE Epilog --------------------------------
(***************************************************************************)
(* The end of an agent run: finalize of agent/droid/droid_agent.py, its    *)
(* best-effort stages under one deadline, and the trajectory writer        *)
(* (agent/trajectory/writer.py), whose worker saves what the run recorded. *)
(*                                                                         *)
(* Time is an integer clock.  A stage takes any time up to its timeout,    *)
(* which the event loop honours at once; what finalize does between two    *)
(* stages may hold the loop up (lag).  The worker is as slow as the disk.  *)
(* Of a trajectory the events (a snapshot of all so far in each write) and *)
(* the screenshots are kept; macro, UI states and the GIF are further jobs *)
(* of the same kinds.                                                      *)
(***************************************************************************)
EXTENDS Naturals, Integers, Sequences, FiniteSets

CONSTANTS
  Deadlines,        \* workflow deadlines, counted from the start of finalize
  BUDGET, RESERVE, OBSERVATION, TELEMETRY, TRAJECTORY, MCP, \* _FINALIZE_..._SECONDS
  Configs,          \* configurations: pairs <<saves_trajectory, has_mcp>>
  QueueSize,        \* of the writer
  MaxEvents, MaxScreenshots, \* bounds: what the run records
  MaxLag            \* bound: time lost between stages

ASSUME EpilogAssumption ==
  /\ {BUDGET, RESERVE, OBSERVATION, TELEMETRY, TRAJECTORY, MCP, QueueSize}
       \subseteq Nat \ {0}
  /\ Deadlines \subseteq Nat /\ {MaxEvents, MaxScreenshots, MaxLag} \subseteq Nat
  /\ Configs \subseteq BOOLEAN \X BOOLEAN

VARIABLES
  now,
  workflow_deadline, saves_trajectory, has_mcp,
  deadline, cleanup_reserve,
  phase,       \* where finalize is
  until,       \* end of the stage that is awaited
  observation_deadline,
  lag,
  stopBy,      \* the writer's stop: "idle", or the time its own limits end it
  trajectory_written, \* write_final has queued its jobs
  mcpBy,       \* the same for disconnect_all
  ending,      \* how finalize ended: "none", "returned", "timed_out", "cancelled"
  saved,       \* "Trajectory saved" was reported
  events, screenshot_queue, screenshot_count,  \* the trajectory in memory
  queue, worker, running,                      \* the writer
  job,         \* the job the worker has begun
  disk,        \* what the files hold
  lost         \* history: jobs dropped at a full queue, failed or cut off

clockVars == <<now, lag>>
configVars == <<workflow_deadline, saves_trajectory, has_mcp>>
planVars == <<deadline, cleanup_reserve, observation_deadline>>
trajectoryVars == <<events, screenshot_queue, screenshot_count>>
writerVars == <<queue, worker, running, job, disk, lost>>
stopVars == <<stopBy, trajectory_written, mcpBy>>
resultVars == <<ending, saved>>
epilogVars ==
  <<clockVars, configVars, planVars, phase, until, stopVars, resultVars,
    trajectoryVars, writerVars>>

Least(a, b) == IF a < b THEN a ELSE b
Most(a, b) == IF a > b THEN a ELSE b

Stages == {"structured", "telemetry", "screenshot", "ui", "trajectory", "mcp"}
Gaps == {"gap_structured", "gap_telemetry", "gap_screenshot", "gap_ui",
         "gap_trajectory", "gap_mcp", "gap_return"}
NoJob == [kind |-> "none", value |-> 0]
Events(n) == [kind |-> "events", value |-> n]
Screenshot(i, n) == [kind |-> "screenshot", value |-> <<i, n>>]
Torn == -1

EpilogInit ==
  /\ now = 0 /\ lag = 0
  /\ workflow_deadline \in Deadlines
  /\ \E c \in Configs : saves_trajectory = c[1] /\ has_mcp = c[2]
  /\ deadline = 0 /\ cleanup_reserve = 0 /\ observation_deadline = 0
  /\ phase = "running" /\ until = 0
  /\ stopBy = -1 /\ trajectory_written = FALSE /\ mcpBy = -1
  /\ ending = "none" /\ saved = FALSE
  /\ events = 0 /\ screenshot_queue = <<>> /\ screenshot_count = 0
  /\ queue = <<>> /\ running = saves_trajectory
  /\ worker = IF saves_trajectory THEN "idle" ELSE "stopped"
  /\ job = NoJob
  /\ disk = [events |-> 0, screenshots |-> {}]
  /\ lost = {}

-----------------------------------------------------------------------------
(* The run records and writes.                                             *)

\* handle_stream_event of a screenshot.
RecordScreenshot ==
  /\ phase = "running" /\ saves_trajectory
  /\ screenshot_count < MaxScreenshots
  /\ screenshot_count' = screenshot_count + 1
  /\ screenshot_queue' = Append(screenshot_queue, screenshot_count')
  /\ UNCHANGED <<clockVars, configVars, planVars, phase, until, stopVars, resultVars,
                 events, writerVars>>

\* handle_stream_event of any other event.
RecordEvent ==
  /\ phase = "running" /\ saves_trajectory
  /\ events < MaxEvents
  /\ events' = events + 1
  /\ UNCHANGED <<clockVars, configVars, planVars, phase, until, stopVars, resultVars,
                 screenshot_queue, screenshot_count, writerVars>>

\* Mutant of ScreenshotJobs: numbers start anew with each write.
ScreenshotJobsFromZero(shots, count) ==
  [k \in DOMAIN shots |-> Screenshot(k - 1, shots[k])]

\* _create_screenshot_jobs: the queued screenshots are the last of count.
ScreenshotJobs(shots, count) ==
  [k \in DOMAIN shots |-> Screenshot(count - Len(shots) + k - 1, shots[k])]

\* submit for each job of a write: what does not fit is dropped.
Submit(jobs) ==
  LET fitting == Least(Len(jobs), QueueSize - Len(queue))
  IN /\ queue' = queue \o SubSeq(jobs, 1, fitting)
     /\ lost' = lost \cup {jobs[k] : k \in fitting + 1..Len(jobs)}

\* TrajectoryWriter.write: a snapshot of the trajectory becomes jobs.
WriteTrajectory ==
  /\ Submit(<<Events(events)>> \o ScreenshotJobs(screenshot_queue, screenshot_count))
  /\ screenshot_queue' = <<>>
  /\ UNCHANGED <<events, screenshot_count, worker, running, job, disk>>

\* The write at the end of a step of the agent.
WriteStep ==
  /\ phase = "running" /\ saves_trajectory
  /\ WriteTrajectory
  /\ UNCHANGED <<clockVars, configVars, planVars, phase, until, stopVars, resultVars>>

-----------------------------------------------------------------------------
(* The writer's worker: _work_loop.                                        *)

WorkerTakes ==
  /\ worker = "idle" /\ running /\ queue # <<>>
  /\ worker' = "writing" /\ job' = Head(queue) /\ queue' = Tail(queue)
  /\ UNCHANGED <<clockVars, configVars, planVars, phase, until, stopVars, resultVars,
                 trajectoryVars, running, disk, lost>>

Written(j) ==
  IF j.kind = "events" THEN [disk EXCEPT !.events = j.value]
  ELSE [disk EXCEPT !.screenshots = {s \in @ : s[1] # j.value[1]} \cup {j.value}]

Truncated(j) ==
  IF j.kind = "events" THEN [disk EXCEPT !.events = Torn]
  ELSE [disk EXCEPT !.screenshots = {s \in @ : s[1] # j.value[1]}]

\* execute returns, or fails before the file was opened or after.
WorkerWrites ==
  /\ worker = "writing"
  /\ worker' = "idle" /\ job' = NoJob
  /\ \/ disk' = Written(job) /\ UNCHANGED lost
     \/ disk' \in {disk, Truncated(job)} /\ lost' = lost \cup {job}
  /\ UNCHANGED <<clockVars, configVars, planVars, phase, until, stopVars, resultVars,
                 trajectoryVars, queue, running>>

\* queue.join.
Drained == queue = <<>> /\ worker # "writing"

\* stop's finally block: the worker is cancelled wherever it is; the thread
\* that has the file may have opened it, written it or neither.
CutOff ==
  /\ running' = FALSE /\ worker' = "stopped" /\ job' = NoJob
  /\ stopBy' = -1
  /\ lost' = lost \cup {queue[k] : k \in DOMAIN queue}
                  \cup (IF worker = "writing" THEN {job} ELSE {})
  /\ disk' \in IF worker = "writing" THEN {disk, Written(job), Truncated(job)}
               ELSE {disk}
  /\ UNCHANGED queue

-----------------------------------------------------------------------------
(* finalize.                                                               *)

CleanupReserve(available, demand) == Least(demand, available \div 2)

Demand == (IF saves_trajectory THEN TRAJECTORY ELSE 0) + (IF has_mcp THEN MCP ELSE 0)

\* Mutant of WorkflowLimit: finalize counts on the very end of the workflow.
WorkflowLimitExact == workflow_deadline

\* The workflow's timeout less the time the loop needs to deliver the result.
WorkflowLimit == workflow_deadline - RESERVE

\* finalize up to its first stage; the workflow has not timed out yet.
BeginFinalize ==
  /\ phase = "running"
  /\ phase' = "gap_structured"
  /\ deadline' = Least(now + BUDGET, WorkflowLimit)
  /\ cleanup_reserve' = CleanupReserve(Most(0, deadline' - now), Demand)
  /\ UNCHANGED <<clockVars, configVars, observation_deadline, until,
                 stopVars, resultVars, trajectoryVars, writerVars>>

Follows(stage) ==
  CASE stage = "structured" -> "gap_telemetry"
    [] stage = "telemetry" -> "gap_screenshot"
    [] stage = "screenshot" -> "gap_ui"
    [] stage = "ui" -> "gap_trajectory"
    [] stage = "trajectory" -> "gap_mcp"
    [] stage = "mcp" -> "gap_return"

Skip(stage) == phase' = Follows(stage) /\ until' = 0

\* _run_finalize_stage up to its wait: nothing is awaited without time left.
Await(stage, limit, cap) ==
  LET remaining == Least(cap, limit - now)
  IN IF remaining <= 0 THEN Skip(stage)
     ELSE phase' = stage /\ until' = now + remaining

\* Mutant of BeforeCleanup: the stages may use the whole budget.
WholeBudget == deadline

BeforeCleanup == deadline - cleanup_reserve

\* Structured output, where an output model was given.
StartStructured ==
  /\ phase = "gap_structured"
  /\ Await("structured", BeforeCleanup, BUDGET) \/ Skip("structured")
  /\ UNCHANGED <<clockVars, configVars, planVars, stopVars, resultVars,
                 trajectoryVars, writerVars>>

StartTelemetry ==
  /\ phase = "gap_telemetry"
  /\ Await("telemetry", BeforeCleanup, TELEMETRY)
  /\ UNCHANGED <<clockVars, configVars, planVars, stopVars, resultVars,
                 trajectoryVars, writerVars>>

\* The final screenshot, or neither it nor the UI state when nothing wants it.
StartScreenshot ==
  /\ phase = "gap_screenshot"
  /\ observation_deadline' = Least(BeforeCleanup, now + OBSERVATION)
  /\ \/ Await("screenshot", observation_deadline', OBSERVATION)
     \/ ~saves_trajectory /\ Skip("ui")
  /\ UNCHANGED <<clockVars, configVars, deadline, cleanup_reserve,
                 stopVars, resultVars, trajectoryVars, writerVars>>

StartUi ==
  /\ phase = "gap_ui"
  /\ Await("ui", observation_deadline, OBSERVATION)
  /\ UNCHANGED <<clockVars, configVars, planVars, stopVars, resultVars,
                 trajectoryVars, writerVars>>

\* continue_in_background: the task has the whole cap, awaited or not.
InBackground(limit, cap) == now + cap

McpReserve == IF has_mcp THEN Least(MCP, Most(0, deadline - now) \div 2) ELSE 0

\* write_final, which may fail, and the stop of the writer.
StartTrajectory ==
  /\ phase = "gap_trajectory"
  /\ observation_deadline' = 0
  /\ IF ~saves_trajectory
     THEN Skip("trajectory") /\ UNCHANGED <<stopVars, trajectoryVars, writerVars>>
     ELSE /\ Await("trajectory", deadline - McpReserve, TRAJECTORY)
          /\ stopBy' = InBackground(deadline - McpReserve, TRAJECTORY)
          /\ UNCHANGED mcpBy
          /\ \/ WriteTrajectory /\ trajectory_written' = TRUE
             \/ UNCHANGED <<trajectory_written, trajectoryVars, writerVars>>
  /\ UNCHANGED <<clockVars, configVars, deadline, cleanup_reserve,
                 resultVars>>

StartMcp ==
  /\ phase = "gap_mcp"
  /\ IF has_mcp THEN Await("mcp", deadline, MCP) /\ mcpBy' = InBackground(deadline, MCP)
     ELSE Skip("mcp") /\ UNCHANGED mcpBy
  /\ UNCHANGED <<clockVars, configVars, planVars, stopBy, trajectory_written, resultVars,
                 trajectoryVars, writerVars>>

Return ==
  /\ phase = "gap_return"
  /\ phase' = "over" /\ ending' = "returned"
  /\ UNCHANGED <<clockVars, configVars, planVars, until, stopVars, saved, trajectoryVars,
                 writerVars>>

\* The awaited task returns or fails in time.
StageEnds ==
  /\ phase \in {"structured", "telemetry", "screenshot", "ui"}
  /\ Skip(phase)
  /\ UNCHANGED <<clockVars, configVars, planVars, stopVars, resultVars,
                 trajectoryVars, writerVars>>

\* The wait ends: the task is cancelled, or goes on in the background.
StageTimesOut ==
  /\ phase \in Stages
  /\ now >= until
  /\ Skip(phase)
  /\ UNCHANGED <<clockVars, configVars, planVars, stopVars, resultVars,
                 trajectoryVars, writerVars>>

\* stop returns: the queue is drained, or it has hit one of its limits.
\* finalize may be waiting for it or long over.
WriterStops ==
  /\ stopBy # -1
  /\ Drained \/ (now >= stopBy /\ phase # "trajectory")
  /\ CutOff
  /\ IF phase = "trajectory"
     THEN Skip(phase) /\ saved' = trajectory_written
     ELSE UNCHANGED <<phase, until, saved>>
  /\ UNCHANGED <<clockVars, configVars, planVars, trajectory_written, mcpBy,
                 ending, trajectoryVars>>

McpDisconnects ==
  /\ mcpBy # -1
  /\ mcpBy' = -1
  /\ IF phase = "mcp" THEN Skip(phase) ELSE UNCHANGED <<phase, until>>
  /\ UNCHANGED <<clockVars, configVars, planVars, stopBy, trajectory_written, resultVars,
                 trajectoryVars, writerVars>>

-----------------------------------------------------------------------------
(* The workflow runtime and the clock.                                     *)

TimedOut == now >= workflow_deadline

\* The workflow's timeout cancels the step; so does its caller, at an await.
Interrupted(how) ==
  /\ phase \notin {"running", "over"}
  /\ how = "timed_out" => TimedOut
  /\ how = "cancelled" => phase \in Stages
  /\ phase' = "over" /\ ending' = how /\ until' = 0
  /\ UNCHANGED <<clockVars, configVars, planVars, stopVars, saved, trajectoryVars,
                 writerVars>>

\* No timer is late while the loop waits: a stage, the writer's stop and
\* disconnect_all are over at their limits, the workflow at its own.
Tick ==
  /\ phase \in Stages \cup {"over"}
  /\ phase \in Stages => now < until /\ ~TimedOut
  /\ stopBy # -1 => now < stopBy
  /\ mcpBy # -1 => now < mcpBy
  /\ phase = "over" => stopBy # -1 \/ mcpBy # -1
  /\ now' = now + 1
  /\ UNCHANGED <<lag, configVars, planVars, phase, until, stopVars, resultVars,
                 trajectoryVars, writerVars>>

\* Synchronous work of finalize holds the loop up; timers fire late.
Lag ==
  /\ phase \in Gaps
  /\ lag < MaxLag
  /\ now' = now + 1 /\ lag' = lag + 1
  /\ UNCHANGED <<configVars, planVars, phase, until, stopVars, resultVars,
                 trajectoryVars, writerVars>>

RunNext == RecordScreenshot \/ RecordEvent \/ WriteStep \/ BeginFinalize
WorkerNext == WorkerTakes \/ WorkerWrites
FinalizeNext ==
  \/ StartStructured \/ StartTelemetry \/ StartScreenshot \/ StartUi
  \/ StartTrajectory \/ StartMcp \/ Return \/ StageTimesOut
LoopNext == FinalizeNext \/ WriterStops \/ McpDisconnects \/ Tick
Interruptions == \E how \in {"timed_out", "cancelled"} : Interrupted(how)

EpilogOver == phase = "over" /\ stopBy = -1 /\ mcpBy = -1 /\ UNCHANGED epilogVars

EpilogNext ==
  \/ RunNext \/ WorkerNext \/ LoopNext \/ StageEnds \/ Lag \/ Interruptions
  \/ EpilogOver

EpilogSpec == EpilogInit /\ [][EpilogNext]_epilogVars

-----------------------------------------------------------------------------
EpilogTypeOK ==
  /\ {now, lag, workflow_deadline, events, screenshot_count} \subseteq Nat
  /\ {deadline, cleanup_reserve, observation_deadline, until} \subseteq Int
  /\ phase \in Stages \cup Gaps \cup {"running", "over"}
  /\ stopBy \in Nat \cup {-1} /\ mcpBy \in Nat \cup {-1}
  /\ {trajectory_written, saved, running, saves_trajectory, has_mcp} \subseteq BOOLEAN
  /\ ending \in {"none", "returned", "timed_out", "cancelled"}
  /\ worker \in {"idle", "writing", "stopped"}
  /\ Len(queue) <= QueueSize

\* The result is not lost to the epilog: a workflow that reached finalize
\* times out only if the loop was held up for as long as the reserve, or for
\* all that was left (deadline and _FINALIZE_SCHEDULING_RESERVE_SECONDS).
DecisionSurvives ==
  ending = "timed_out" => lag >= Least(RESERVE, workflow_deadline)

\* The stages before it never use the time kept for saving and disconnecting,
\* and saving never the time kept for disconnecting (cleanup_reserve,
\* mcp_reserve): each finds its share of the budget, but for the lag.
CleanupHasItsTime ==
  LET share == Least(Demand, Most(0, deadline) \div 2)
      remaining == Most(0, deadline) - now
  IN /\ phase = "gap_trajectory" => remaining >= share - lag
     /\ phase = "gap_mcp" /\ has_mcp => remaining >= Least(MCP, share \div 2) - lag

\* "Trajectory saved" is true: the events and every screenshot of the run,
\* under its own number, are on disk, but for jobs that were dropped at a full
\* queue or failed (finalize, _create_screenshot_jobs, WriterWorker.stop).
SavedIsSaved ==
  saved => /\ disk.events = events \/ Events(events) \in lost
           /\ \A i \in 0..screenshot_count - 1 :
                \/ <<i, i + 1>> \in disk.screenshots
                \/ Screenshot(i, i + 1) \in lost
===============================================================================
