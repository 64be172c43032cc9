---------------------------- MODULE RunLifecycle ----------------------------
(***************************************************************************)
(* One task run from creation to its final status: the run document and    *)
(* the device lock in MongoDB (lib/runs/service.ts), the run-task job that *)
(* executes it (lib/jobs/run-task.ts), the operator's stop, the executor   *)
(* that drives the phone (module Executor) and what a restart of the app   *)
(* (lib/jobs/reconcile.ts) or of the executor leaves behind.               *)
(*                                                                         *)
(* Every database write and every call to the executor is a step of its    *)
(* own, so the requests, the jobs and the executor interleave between any  *)
(* two of them.                                                            *)
(***************************************************************************)
EXTENDS Naturals

CONSTANTS
  Runs,               \* identifiers of the runs that may be created
  Devices,            \* device serials
  DeviceOf,           \* the device each run is created for
  None,               \* the null of Device.activeRunId
  ReconnectAttempts,  \* RECONNECT_ATTEMPTS of run-task.ts
  MaxFaults           \* bound: crashes, lost answers and unreachable calls

ASSUME RunsAssumption == /\ DeviceOf \in [Runs -> Devices]
                         /\ None \notin Runs
ASSUME BoundsAssumption == /\ ReconnectAttempts \in Nat \ {0}
                           /\ MaxFaults \in Nat

VARIABLES
  app,        \* the Next.js process: "up", "down", or "rearmed" in mid boot
  status,     \* Run.status; "none" before the insert, "deleted" after deleteRun
  holder,     \* Device.activeRunId, the device lock
  creating,   \* createRun request: the step it takes next
  job,        \* run-task job: the step it takes next
  resumed,    \* this execution of the job reattached to a running run
  attempt,    \* failed attempts of the current gap in tailUntilFinished
  stopping,   \* stopRun request: the step it takes next
  exec,       \* the executor's ActiveRun
  stopAsked,  \* ActiveRun.cancel_requested
  ending,     \* terminal event the executor published
  stored,     \* terminal event stored in runEvents
  starts,     \* history: times the executor was told to drive the run
  faults      \* faults that happened so far

requests == <<creating, stopping>>
tailVars == <<resumed, attempt, stored>>
execVars == <<exec, stopAsked, ending, starts>>
phoneVars == <<exec, stopAsked, ending>>
vars == <<app, status, holder, job, requests, tailVars, execVars, faults>>

Phone == INSTANCE Executor

Endings == Phone!Endings
InFlight == {"queued", "running"}
Terminal == Endings \cup {"lost", "skipped"}
Settled == Terminal \cup {"deleted"}

\* Job steps that are rows of agendaJobs rather than code in execution.
Parked == {"none", "ready", "locked", "dead"}
BeforeStart == {"lock", "busy", "prepare", "skip", "begin"}
Driving == {"post", "posting", "tail", "attached", "record", "giveup"}
JobSteps == Parked \cup BeforeStart \cup Driving
              \cup {"resume", "fail", "lost", "release"}

Dev(r) == DeviceOf[r]

TypeOK ==
  /\ app \in {"up", "down", "rearmed"}
  /\ status \in [Runs -> {"none"} \cup InFlight \cup Settled]
  /\ holder \in [Devices -> Runs \cup {None}]
  /\ creating \in [Runs -> {"idle", "runs", "insert", "enqueue"}]
  /\ job \in [Runs -> JobSteps]
  /\ resumed \in [Runs -> BOOLEAN]
  /\ attempt \in [Runs -> 0..ReconnectAttempts]
  /\ stopping \in [Runs -> {"idle", "cas", "call", "forgotten", "release"}]
  /\ Phone!ExecTypeOK
  /\ stored \in [Runs -> Endings \cup {"none"}]
  /\ starts \in [Runs -> Nat]
  /\ faults \in 0..MaxFaults

Init ==
  /\ app = "up"
  /\ status = [r \in Runs |-> "none"]
  /\ holder = [d \in Devices |-> None]
  /\ creating = [r \in Runs |-> "idle"]
  /\ job = [r \in Runs |-> "none"]
  /\ resumed = [r \in Runs |-> FALSE]
  /\ attempt = [r \in Runs |-> 0]
  /\ stopping = [r \in Runs |-> "idle"]
  /\ Phone!ExecInit
  /\ stored = [r \in Runs |-> "none"]
  /\ starts = [r \in Runs |-> 0]
  /\ faults = 0

Fault == faults < MaxFaults /\ faults' = faults + 1
NoFault == faults' = faults

JobGoes(r, step) == job' = [job EXCEPT ![r] = step]
StopGoes(r, step) == stopping' = [stopping EXCEPT ![r] = step]

-----------------------------------------------------------------------------
(* The writes of lib/runs/service.ts, each one atomic update.              *)

FinishRun(r, outcome) ==
  status' = [status EXCEPT ![r] = IF @ \in InFlight THEN outcome ELSE @]

\* Faulty variant: frees the device whoever holds it.
ReleaseAnyLock(r) == holder' = [holder EXCEPT ![Dev(r)] = None]

\* releaseDeviceLock: only the run that holds the lock gives it back.
ReleaseDeviceLock(r) ==
  holder' = [holder EXCEPT ![Dev(r)] = IF @ = r THEN None ELSE @]

\* acquireDeviceLock matches a device that is free or already held by the run.
LockFree(r) == holder[Dev(r)] \in {None, r}
TakeLock(r) == holder' = [holder EXCEPT ![Dev(r)] = r]

-----------------------------------------------------------------------------
(* createRun and the enqueueRun of its caller.                             *)

\* The device document says the device is idle.
CreateReadDevice(r) ==
  /\ app = "up" /\ status[r] = "none" /\ creating[r] = "idle"
  /\ holder[Dev(r)] = None
  /\ creating' = [creating EXCEPT ![r] = "runs"]
  /\ UNCHANGED <<app, status, holder, job, stopping, tailVars, execVars,
                 faults>>

\* runInFlightOn: a queued or running run of the device refuses the request.
CreateReadRuns(r) ==
  /\ app = "up" /\ creating[r] = "runs"
  /\ LET busy == \E o \in Runs : Dev(o) = Dev(r) /\ status[o] \in InFlight
     IN creating' = [creating EXCEPT ![r] = IF busy THEN "idle" ELSE "insert"]
  /\ UNCHANGED <<app, status, holder, job, stopping, tailVars, execVars,
                 faults>>

\* Run.create under the unique index one_queued_run_per_device.
InsertRun(r) ==
  IF \E o \in Runs : Dev(o) = Dev(r) /\ status[o] = "queued"
  THEN creating' = [creating EXCEPT ![r] = "idle"] /\ UNCHANGED status
  ELSE /\ status' = [status EXCEPT ![r] = "queued"]
       /\ creating' = [creating EXCEPT ![r] = "enqueue"]

CreateInsert(r) ==
  /\ app = "up" /\ creating[r] = "insert"
  /\ InsertRun(r)
  /\ UNCHANGED <<app, holder, job, stopping, tailVars, execVars, faults>>

CreateEnqueue(r) ==
  /\ app = "up" /\ creating[r] = "enqueue"
  /\ JobGoes(r, "ready")
  /\ creating' = [creating EXCEPT ![r] = "idle"]
  /\ UNCHANGED <<app, status, holder, stopping, tailVars, execVars, faults>>

-----------------------------------------------------------------------------
(* executeRun                                                              *)

\* A running run is resumed, a queued one executed, any other left alone.
Dispatch(r) ==
  /\ JobGoes(r, CASE status[r] = "running" -> "resume"
                  [] status[r] = "queued" -> "lock"
                  [] OTHER -> "none")
  /\ resumed' = [resumed EXCEPT ![r] = status[r] = "running"]

JobStart(r) ==
  /\ app = "up" /\ job[r] = "ready"
  /\ Dispatch(r)
  /\ UNCHANGED <<app, status, holder, requests, attempt, stored, execVars,
                 faults>>

JobLock(r) ==
  /\ app = "up" /\ job[r] = "lock"
  /\ IF LockFree(r)
     THEN TakeLock(r) /\ JobGoes(r, "prepare")
     ELSE UNCHANGED holder /\ JobGoes(r, "busy")
  /\ UNCHANGED <<app, status, requests, tailVars, execVars, faults>>

\* "Device ... is busy": failed without ever holding the device.
JobBusy(r) ==
  /\ app = "up" /\ job[r] = "busy"
  /\ FinishRun(r, "failed") /\ JobGoes(r, "none")
  /\ UNCHANGED <<app, holder, requests, tailVars, execVars, faults>>

\* Settings, cards, memory and battery temperature: cool enough or too hot.
JobPrepare(r) ==
  /\ app = "up" /\ job[r] = "prepare"
  /\ \E step \in {"begin", "skip"} : JobGoes(r, step)
  /\ UNCHANGED <<app, status, holder, requests, tailVars, execVars, faults>>

\* A read of JobPrepare or the input snapshot of JobBegin throws outside the
\* try block: agenda marks the job failed and nothing releases the lock.
JobThrows(r) ==
  /\ app = "up" /\ job[r] \in {"prepare", "begin"} /\ Fault
  /\ JobGoes(r, "dead")
  /\ UNCHANGED <<app, status, holder, requests, tailVars, execVars>>

JobSkip(r) ==
  /\ app = "up" /\ job[r] = "skip"
  /\ FinishRun(r, "skipped") /\ JobGoes(r, "release")
  /\ UNCHANGED <<app, holder, requests, tailVars, execVars, faults>>

\* transitionRun(queued -> running); a run stopped meanwhile is let go.
BeginRun(r) ==
  IF status[r] = "queued"
  THEN status' = [status EXCEPT ![r] = "running"] /\ JobGoes(r, "post")
  ELSE UNCHANGED status /\ JobGoes(r, "release")

JobBegin(r) ==
  /\ app = "up" /\ job[r] = "begin"
  /\ BeginRun(r)
  /\ UNCHANGED <<app, holder, requests, tailVars, execVars, faults>>

\* POST /runs reaches the executor: refused with 409 while it has a run of the
\* device that is not done, otherwise registered and not answered yet.
JobPost(r) ==
  /\ app = "up" /\ job[r] = "post"
  /\ IF Phone!DeviceBusy(r)
     THEN JobGoes(r, "fail") /\ UNCHANGED execVars
     ELSE /\ Phone!Start(r)
          /\ starts' = [starts EXCEPT ![r] = @ + 1]
          /\ JobGoes(r, "posting")
  /\ UNCHANGED <<app, status, holder, requests, tailVars, faults>>

\* The executor cannot be reached, or its answer is lost.
JobPostFails(r) ==
  /\ app = "up" /\ job[r] \in {"post", "posting"} /\ Fault
  /\ JobGoes(r, "fail")
  /\ UNCHANGED <<app, status, holder, requests, tailVars, execVars>>

\* Faulty variant: any terminal event counts as a success.
FinishAsSuccess(r) == FinishRun(r, "succeeded")

\* finishFromEvent: the status the stored terminal event stands for.
FinishFromEvent(r) == FinishRun(r, stored[r])

\* resumeRun: finishes from the stored terminal event, or takes the lock
\* (ignoring a refusal) and tails again.
JobResume(r) ==
  /\ app = "up" /\ job[r] = "resume"
  /\ IF stored[r] # "none"
     THEN FinishFromEvent(r) /\ JobGoes(r, "release") /\ UNCHANGED holder
     ELSE /\ JobGoes(r, "tail")
          /\ UNCHANGED status
          /\ IF LockFree(r) THEN TakeLock(r) ELSE UNCHANGED holder
  /\ UNCHANGED <<app, requests, tailVars, execVars, faults>>

-----------------------------------------------------------------------------
(* tailUntilFinished and tailEvents                                        *)

\* Faulty variant: a resumed run the executor lost is posted again.
PostAgain(r) ==
  JobGoes(r, IF exec[r] = "absent" THEN "post" ELSE "attached")

\* A run the executor does not know: lost after a restart of the app, failed
\* for the job that posted it.
Attach(r) ==
  JobGoes(r, CASE exec[r] # "absent" -> "attached"
               [] exec[r] = "absent" /\ resumed[r] -> "lost"
               [] exec[r] = "absent" /\ ~resumed[r] -> "fail")

\* GET /runs/{id}/events: 404 leaves the loop, else the job is a subscriber.
JobConnect(r) ==
  /\ app = "up" /\ job[r] = "tail"
  /\ Attach(r)
  /\ UNCHANGED <<app, status, holder, requests, tailVars, execVars, faults>>

\* One more failed attempt; `base` is 0 when the stream had made progress.
AfterGap(r, base) == IF base + 1 < ReconnectAttempts THEN "tail" ELSE "giveup"

\* The connection is refused or breaks; a stream that ends after new events
\* restarts the budget.
JobStreamBreaks(r) ==
  /\ app = "up" /\ job[r] \in {"tail", "attached"} /\ Fault
  /\ \E base \in {attempt[r]} \cup (IF job[r] = "attached" THEN {0} ELSE {}) :
       /\ attempt' = [attempt EXCEPT ![r] = base + 1]
       /\ JobGoes(r, AfterGap(r, base))
  /\ UNCHANGED <<app, status, holder, requests, resumed, stored, execVars>>

\* The terminal event arrives and is appended to runEvents; the subscriber
\* holds the ActiveRun, so a sweep in between does not lose it.
JobStore(r) ==
  /\ app = "up" /\ job[r] = "attached" /\ ending[r] # "none"
  /\ stored' = [stored EXCEPT ![r] = ending[r]]
  /\ JobGoes(r, "record")
  /\ UNCHANGED <<app, status, holder, requests, resumed, attempt, execVars,
                 faults>>

JobRecord(r) ==
  /\ app = "up" /\ job[r] = "record"
  /\ FinishFromEvent(r) /\ JobGoes(r, "release")
  /\ UNCHANGED <<app, holder, requests, tailVars, execVars, faults>>

\* Attempts exhausted: a best-effort stop, whose failure is ignored.
JobGiveUp(r) ==
  /\ app = "up" /\ job[r] = "giveup"
  /\ \/ NoFault /\ Phone!Stop(r)
     \/ NoFault /\ ~Phone!Known(r) /\ UNCHANGED phoneVars
     \/ Fault /\ UNCHANGED phoneVars
  /\ JobGoes(r, "fail")
  /\ UNCHANGED <<app, status, holder, requests, tailVars, starts>>

JobFail(r) ==
  /\ app = "up" /\ job[r] \in {"fail", "lost"}
  /\ FinishRun(r, IF job[r] = "lost" THEN "lost" ELSE "failed")
  /\ JobGoes(r, "release")
  /\ UNCHANGED <<app, holder, requests, tailVars, execVars, faults>>

\* The finally blocks: the lock is given back and the job is done.
JobRelease(r) ==
  /\ app = "up" /\ job[r] = "release"
  /\ ReleaseDeviceLock(r) /\ JobGoes(r, "none")
  /\ resumed' = [resumed EXCEPT ![r] = FALSE]
  /\ attempt' = [attempt EXCEPT ![r] = 0]
  /\ UNCHANGED <<app, status, requests, stored, execVars, faults>>

-----------------------------------------------------------------------------
(* stopRun and deleteRun                                                   *)

StopRead(r) ==
  /\ app = "up" /\ stopping[r] = "idle" /\ status[r] \in InFlight
  /\ StopGoes(r, IF status[r] = "queued" THEN "cas" ELSE "call")
  /\ UNCHANGED <<app, status, holder, job, creating, tailVars, execVars,
                 faults>>

\* Still queued: cancelled here. Otherwise the job was faster, or it ended.
StopCas(r) ==
  /\ app = "up" /\ stopping[r] = "cas"
  /\ IF status[r] = "queued"
     THEN /\ status' = [status EXCEPT ![r] = "cancelled"]
          /\ StopGoes(r, "release")
     ELSE UNCHANGED status /\ StopGoes(r, "call")
  /\ UNCHANGED <<app, holder, job, creating, tailVars, execVars, faults>>

StopCall(r) ==
  /\ app = "up" /\ stopping[r] = "call"
  /\ IF Phone!Known(r)
     THEN StopGoes(r, "idle") /\ Phone!Stop(r)
     ELSE StopGoes(r, "forgotten") /\ UNCHANGED phoneVars
  /\ UNCHANGED <<app, status, holder, job, creating, tailVars, starts,
                 faults>>

\* Unreachable: the request fails and nothing is pretended.
StopUnreachable(r) ==
  /\ app = "up" /\ stopping[r] = "call" /\ Fault
  /\ StopGoes(r, "idle")
  /\ UNCHANGED <<app, status, holder, job, creating, tailVars, execVars>>

StopForgotten(r) ==
  /\ app = "up" /\ stopping[r] = "forgotten"
  /\ FinishRun(r, "cancelled") /\ StopGoes(r, "release")
  /\ UNCHANGED <<app, holder, job, creating, tailVars, execVars, faults>>

\* Faulty variant: the stop leaves the lock to the job.
StopKeepsLock(r) ==
  /\ app = "up" /\ stopping[r] = "release"
  /\ StopGoes(r, "idle")
  /\ UNCHANGED <<app, status, holder, job, creating, tailVars, execVars,
                 faults>>

StopRelease(r) ==
  /\ app = "up" /\ stopping[r] = "release"
  /\ ReleaseDeviceLock(r) /\ StopGoes(r, "idle")
  /\ UNCHANGED <<app, status, job, creating, tailVars, execVars, faults>>

DeleteRun(r) ==
  /\ app = "up" /\ status[r] \in Terminal
  /\ status' = [status EXCEPT ![r] = "deleted"]
  /\ UNCHANGED <<app, holder, job, requests, tailVars, execVars, faults>>

-----------------------------------------------------------------------------
(* The executor: its own steps, and what they do to a POST that awaits.     *)

\* The device is connected and POST /runs answered.
ExecAdmit(r) ==
  /\ Phone!Admit(r)
  /\ job' = [job EXCEPT ![r] = IF @ = "posting" THEN "tail" ELSE @]
  /\ UNCHANGED <<app, status, holder, requests, tailVars, starts, faults>>

\* The device is not connected: POST /runs is a 404.
ExecRefuse(r) ==
  /\ Phone!Withdraw(r)
  /\ job' = [job EXCEPT ![r] = IF @ = "posting" THEN "fail" ELSE @]
  /\ UNCHANGED <<app, status, holder, requests, tailVars, starts, faults>>

ExecFinish(r) ==
  /\ Phone!Finish(r)
  /\ UNCHANGED <<app, status, holder, job, requests, tailVars, starts, faults>>

ExecSweep(r) ==
  /\ Phone!Sweep(r)
  /\ UNCHANGED <<app, status, holder, job, requests, tailVars, starts, faults>>

\* A new executor process knows no run; open requests and streams break.
ExecRestart ==
  /\ Fault
  /\ exec' = [r \in Runs |-> "absent"]
  /\ stopAsked' = [r \in Runs |-> FALSE]
  /\ ending' = [r \in Runs |-> "none"]
  /\ attempt' = [r \in Runs |-> IF job[r] = "attached" THEN attempt[r] + 1
                                                       ELSE attempt[r]]
  /\ job' = [r \in Runs |-> CASE job[r] = "posting" -> "fail"
                              [] job[r] = "attached" -> AfterGap(r, attempt[r])
                              [] OTHER -> job[r]]
  /\ UNCHANGED <<app, status, holder, requests, resumed, stored, starts>>

-----------------------------------------------------------------------------
(* Crash of the app and reconcileOnBoot                                    *)

\* Requests and executing jobs vanish; the documents stay, and a job that was
\* executing stays locked in agendaJobs.
AppCrash ==
  /\ app # "down" /\ Fault
  /\ app' = "down"
  /\ creating' = [r \in Runs |-> "idle"]
  /\ stopping' = [r \in Runs |-> "idle"]
  /\ job' = [r \in Runs |-> IF job[r] \in Parked THEN job[r] ELSE "locked"]
  /\ resumed' = [r \in Runs |-> FALSE]
  /\ attempt' = [r \in Runs |-> 0]
  /\ UNCHANGED <<status, holder, stored, execVars>>

\* Faulty variant: only running runs get their job back.
RearmRunning ==
  job' = [r \in Runs |-> IF status[r] = "running" THEN "ready" ELSE job[r]]

\* Every queued or running run gets its job re-armed, or a new one.
RearmJobs ==
  job' = [r \in Runs |-> IF status[r] \in InFlight THEN "ready" ELSE job[r]]

BootRearm ==
  /\ app = "down"
  /\ app' = "rearmed"
  /\ RearmJobs
  /\ UNCHANGED <<status, holder, requests, tailVars, execVars, faults>>

\* Locks of runs that are not running are freed.
FreeLocks ==
  holder' = [d \in Devices |->
               IF holder[d] # None /\ status[holder[d]] # "running"
               THEN None ELSE holder[d]]

BootFree ==
  /\ app = "rearmed"
  /\ app' = "up"
  /\ FreeLocks
  /\ UNCHANGED <<status, job, requests, tailVars, execVars, faults>>

-----------------------------------------------------------------------------
CreateRun(r) == CreateReadRuns(r) \/ CreateInsert(r) \/ CreateEnqueue(r)

ExecuteRun(r) ==
  \/ JobStart(r) \/ JobLock(r) \/ JobBusy(r) \/ JobPrepare(r) \/ JobThrows(r)
  \/ JobSkip(r) \/ JobBegin(r) \/ JobPost(r) \/ JobPostFails(r)
  \/ JobResume(r) \/ JobConnect(r) \/ JobStreamBreaks(r) \/ JobStore(r)
  \/ JobRecord(r) \/ JobGiveUp(r) \/ JobFail(r) \/ JobRelease(r)

StopRun(r) ==
  StopCas(r) \/ StopCall(r) \/ StopUnreachable(r) \/ StopForgotten(r)
    \/ StopRelease(r)

Executor(r) == ExecAdmit(r) \/ ExecRefuse(r) \/ ExecFinish(r)

Boot == BootRearm \/ BootFree

Next ==
  \/ \E r \in Runs : \/ CreateReadDevice(r) \/ CreateRun(r) \/ ExecuteRun(r)
                     \/ StopRead(r) \/ StopRun(r) \/ DeleteRun(r)
                     \/ Executor(r) \/ ExecSweep(r)
  \/ ExecRestart \/ AppCrash \/ Boot

Spec == Init /\ [][Next]_vars

\* Code that has begun goes on while its process lives, a crashed app is
\* started again, and an agent ends (its steps and its time are bounded). Operators and
\* faults are under no obligation.
Fairness ==
  /\ \A r \in Runs : /\ WF_vars(CreateRun(r))
                     /\ WF_vars(ExecuteRun(r))
                     /\ WF_vars(StopRun(r))
                     /\ WF_vars(Executor(r))
  /\ WF_vars(Boot)

FairSpec == Spec /\ Fairness

-----------------------------------------------------------------------------
(* Safety                                                                  *)

\* A run marked running is the one its device's lock names, at every moment
\* and across restarts: so no device has two running runs, and createRun's
\* and acquireDeviceLock's reads of activeRunId mean what they are taken for.
RunningHoldsLock ==
  \A r \in Runs : status[r] = "running" => holder[Dev(r)] = r

\* A held lock always has somebody left to release it: the job of the run
\* that holds it, a stop that is about to, or the next boot. (A job that
\* threw is the exception the code leaves: it keeps the device until a boot,
\* or a stop of its run if that is still queued.)
LockHasKeeper ==
  \A d \in Devices : holder[d] # None =>
    LET r == holder[d]
    IN \/ app # "up"
       \/ job[r] \notin Parked \cup {"lock", "busy"}
       \/ job[r] = "ready" /\ status[r] = "running"
       \/ job[r] = "dead"
       \/ stopping[r] = "release"

\* Every run in flight has somebody who will take it further: a job, or the
\* request that is about to enqueue one. No restart strands a run.
RunHasWorker ==
  \A r \in Runs : status[r] \in InFlight /\ app = "up" =>
    \/ job[r] \notin {"none", "locked"}
    \/ creating[r] = "enqueue"

\* A phone never gets an unexpected duplicate run: whatever crashes and
\* resumes, the executor is told to drive a run at most once.
DrivenAtMostOnce == \A r \in Runs : starts[r] <= 1

\* The final status tells what happened on the phone: success only when the
\* executor said so, lost only when the executor no longer has the run, and
\* skipped only when it never had it.
StatusTellsTruth ==
  \A r \in Runs : /\ status[r] = "succeeded" => stored[r] = "succeeded"
                  /\ status[r] = "lost" => exec[r] = "absent"
                  /\ status[r] = "skipped" => starts[r] = 0

\* One device has one queued run, so the schedules that fire together start one.
OneQueuedPerDevice ==
  \A r, o \in Runs : /\ Dev(r) = Dev(o)
                     /\ status[r] = "queued" /\ status[o] = "queued"
                     => r = o

\* What README says of a device: one run queued or running at a time.
OneInFlightPerDevice ==
  \A r, o \in Runs : /\ Dev(r) = Dev(o)
                     /\ status[r] \in InFlight /\ status[o] \in InFlight
                     => r = o

\* What stopRun's comment promises: a run recorded as cancelled is one the
\* executor is not driving, nor about to.
CancelledIsOffThePhone ==
  \A r \in Runs :
    status[r] = "cancelled" => exec[r] \notin {"starting", "driving"}

-----------------------------------------------------------------------------
(* Action properties                                                       *)

FinalStatusStep ==
  \A r \in Runs :
    /\ status[r] \in Terminal => status'[r] \in {status[r], "deleted"}
    /\ status[r] = "deleted" => status'[r] = "deleted"

\* The first final status stands: late jobs, stops and boots change nothing.
FinalStatusStands == [][FinalStatusStep]_vars

LockHandoverStep ==
  \A d \in Devices : holder[d] # None /\ holder'[d] # holder[d] =>
    holder'[d] = None /\ status[holder[d]] # "running"

\* The lock is never handed from run to run and never taken from a run that
\* is still running.
LockIsNotStolen == [][LockHandoverStep]_vars

-----------------------------------------------------------------------------
(* Liveness                                                                *)

\* The job tails an ActiveRun the executor withdrew, or one whose task never
\* ran: it hears heartbeats only.
Deaf(r) ==
  /\ job[r] = "attached"
  /\ exec[r] = "stranded" \/ (exec[r] = "absent" /\ ending[r] = "none")

\* Every run in flight reaches a final status, unless its job threw before
\* the start or it tails a run that will never end.
RunsEnd ==
  \A r \in Runs : status[r] \in InFlight ~>
                    status[r] \in Settled \/ job[r] = "dead" \/ Deaf(r)

=============================================================================
